---- MODULE Spec2Model ----
(***************************************************************************)
(* A model of the document-preparation core of SemanticUnweaver:           *)
(* ingestion (step1_ingest), CSV parsing and column guessing               *)
(* (utils/textProcessing.ts) and segmentation (services/step2_segment.ts). *)
(*                                                                         *)
(* A JavaScript string is modelled as a sequence of one-character strings, *)
(* <<"#", " ", "a">> for "# a", so that trimming, splitting and the        *)
(* regular expressions of the source are computed character by character.  *)
(***************************************************************************)
EXTENDS Integers, Sequences, FiniteSets, TLC

VARIABLES
    files,                 \* the FileList handed to handleFileUpload
    documents,             \* AppState.documents
    chunks,                \* AppState.chunks
    segmentationStrategy,  \* AppState.segmentationStrategy
    isHierarchical,        \* AppState.isHierarchical
    markdownSplitLevel,    \* AppState.markdownSplitLevel
    csvConfig,             \* AppState.csvConfig
    manualInput,           \* the text pasted into the manual input box
    structure,             \* a CSVStructure (result of parseCSVStructure)
    guess,                 \* a CSVColumnConfig (result of guessCSVConfig), None before the call
    random,                \* the values the random source gives generateId, call by call
    local,                 \* the local analysis under way (n-grams, concordance), None before
    pc                     \* "ready" before the operation under study is called, "done" after
                           \* ("typed" while pasted text waits in the manual input,
                           \* "saved" after handleCsvConfigSave)

vars == <<files, documents, chunks, segmentationStrategy, isHierarchical,
          markdownSplitLevel, csvConfig, manualInput, structure, guess, random, local, pc>>

-----------------------------------------------------------------------------
(* Character classes of the JavaScript regular expressions used by the code *)

WhiteSpace == {" ", "\t", "\n", "\r"}
LineTerminator == {"\n", "\r"}
Digit == {"0", "1", "2", "3", "4", "5", "6", "7", "8", "9"}
Lower == {"a", "b", "c", "d", "e", "f", "g", "h", "i", "j", "k", "l", "m",
          "n", "o", "p", "q", "r", "s", "t", "u", "v", "w", "x", "y", "z"}
Upper == {"A", "B", "C", "D", "E", "F", "G", "H", "I", "J", "K", "L", "M",
          "N", "O", "P", "Q", "R", "S", "T", "U", "V", "W", "X", "Y", "Z"}
WordChar == Lower \cup Upper \cup Digit \cup {"_"}
Terminators == {".", "!", "?"}
Quotes == {"\"", "'"}

\* An optional value (undefined in the source) is the empty sequence, a
\* present value v is <<v>>.
None == <<>>
Some(v) == <<v>>

RECURSIVE SkipWhile(_, _, _)
\* greedy X*: the first index >= q of s whose character is not in class
SkipWhile(s, q, class) ==
    IF q <= Len(s) /\ s[q] \in class THEN SkipWhile(s, q + 1, class) ELSE q

RECURSIVE SkipUntil(_, _, _)
\* greedy [^X]*: the first index >= q of s whose character is in class
SkipUntil(s, q, class) ==
    IF q <= Len(s) /\ s[q] \notin class THEN SkipUntil(s, q + 1, class) ELSE q

RECURSIVE SkipBack(_, _, _)
\* the last index <= q of s whose character is not in class (0 if none)
SkipBack(s, q, class) ==
    IF q >= 1 /\ s[q] \in class THEN SkipBack(s, q - 1, class) ELSE q

\* String.prototype.trim
trim(s) == SubSeq(s, SkipWhile(s, 1, WhiteSpace), SkipBack(s, Len(s), WhiteSpace))

\* ^ under the m flag: the start of the string or just after a line terminator
LineStart(s, q) == q = 1 \/ s[q - 1] \in LineTerminator

RECURSIVE Flatten(_)
\* [...a, ...b, ...] of a sequence of sequences
Flatten(ss) == IF ss = <<>> THEN <<>> ELSE Head(ss) \o Flatten(Tail(ss))

-----------------------------------------------------------------------------
(* The regular expressions handed to String.prototype.split.  MatchAt gives *)
(* the index just after the match of rx that starts at index q of s, or 0   *)
(* when rx does not match there; an empty match (a lookahead) gives q.      *)

\* /\n\s*\n/ (PARAGRAPH): a line break, then the whitespace run up to its last line break
reParagraph(s, q) ==
    IF s[q] # "\n" THEN 0
    ELSE LET w == SkipWhile(s, q + 1, WhiteSpace)
             j == SkipBack(s, w - 1, WhiteSpace \ {"\n"})
         IN  IF j > q THEN j + 1 ELSE 0

\* '\n' (LINE)
reLine(s, q) == IF s[q] = "\n" THEN q + 1 ELSE 0

\* /(?=^\s*#+\s)/gm (SECTION): an empty match before optional whitespace, a run of # and a whitespace
reSection(s, q) ==
    LET a == SkipWhile(s, q, WhiteSpace)
        h == SkipWhile(s, a, {"#"})
    IN  IF LineStart(s, q) /\ h > a /\ h <= Len(s) /\ s[h] \in WhiteSpace THEN q ELSE 0

\* /\n(?=[A-Z0-9][\w\s]*:)/g (TURN): a line break before "Speaker:"
reTurn(s, q) ==
    IF s[q] = "\n" /\ q + 1 <= Len(s) /\ s[q + 1] \in Upper \cup Digit
    THEN LET j == SkipWhile(s, q + 2, WordChar \cup WhiteSpace)
         IN  IF j <= Len(s) /\ s[j] = ":" THEN q + 1 ELSE 0
    ELSE 0

\* \s+.+$ under the m flag, from index h: whitespace (which may run over
\* line breaks), then the rest of a line holding at least one character;
\* \s+ gives characters back when the whitespace run reaches the end of the string
headingTail(s, h) ==
    LET w == SkipWhile(s, h, WhiteSpace)
        k == SkipBack(s, Len(s), LineTerminator)
    IN  IF ~(h <= Len(s) /\ s[h] \in WhiteSpace) THEN 0
        ELSE IF w <= Len(s) THEN SkipUntil(s, w, LineTerminator)
        ELSE IF k > h THEN SkipUntil(s, k, LineTerminator)
        ELSE 0

\* new RegExp(`(^\\s*#{L}\\s+.+$)`, 'gm'): optional whitespace from a line
\* start, exactly L '#', then \s+.+$
reHeading(L, s, q) ==
    LET a == SkipWhile(s, q, WhiteSpace)
        h == SkipWhile(s, a, {"#"})
    IN  IF LineStart(s, q) /\ h - a = L THEN headingTail(s, h) ELSE 0

\* /\r?\n/ (parseCSVStructure, analyzeMarkdownLevels)
reNewline(s, q) ==
    IF s[q] = "\n" THEN q + 1
    ELSE IF s[q] = "\r" /\ q + 1 <= Len(s) /\ s[q + 1] = "\n" THEN q + 2
    ELSE 0

MatchAt(rx, s, q) ==
    CASE rx.re = "paragraph" -> reParagraph(s, q)
      [] rx.re = "line"      -> reLine(s, q)
      [] rx.re = "section"   -> reSection(s, q)
      [] rx.re = "turn"      -> reTurn(s, q)
      [] rx.re = "heading"   -> reHeading(rx.level, s, q)
      [] rx.re = "newline"   -> reNewline(s, q)

RECURSIVE SplitFrom(_, _, _, _)
\* String.prototype.split(rx): p is the start of the current piece, q the
\* index tried next; a regular expression with a capture group (rx.capture)
\* also puts each match in the result
SplitFrom(s, rx, p, q) ==
    IF q > Len(s) THEN <<SubSeq(s, p, Len(s))>>
    ELSE LET e == MatchAt(rx, s, q)
         IN  IF e = 0 \/ e = p THEN SplitFrom(s, rx, p, q + 1)
             ELSE <<SubSeq(s, p, q - 1)>>
                  \o (IF rx.capture THEN <<SubSeq(s, q, e - 1)>> ELSE <<>>)
                  \o SplitFrom(s, rx, e, e)

split(s, re) == SplitFrom(s, [re |-> re, level |-> 0, capture |-> FALSE], 1, 1)

RECURSIVE MatchSentences(_, _)
\* text.match(/[^.!?]+[.!?]+["']?|[^.!?]+$/g): every match from index q on
MatchSentences(s, q) ==
    IF q > Len(s) THEN <<>>
    ELSE IF s[q] \in Terminators THEN MatchSentences(s, q + 1)
    ELSE LET a == SkipUntil(s, q, Terminators)
             b == SkipWhile(s, a, Terminators)
             c == IF b <= Len(s) /\ s[b] \in Quotes THEN b + 1 ELSE b
         IN  IF a > Len(s) THEN <<SubSeq(s, q, Len(s))>>
             ELSE <<SubSeq(s, q, c - 1)>> \o MatchSentences(s, c)

\* .filter(t => t.trim())
NonBlank(pieces) == SelectSeq(pieces, LAMBDA t : trim(t) # <<>>)

splitRawText(text, strategy) ==
    CASE strategy = "PARAGRAPH" -> NonBlank(split(text, "paragraph"))
      [] strategy = "SENTENCE"  ->
            LET m == MatchSentences(text, 1) IN IF m = <<>> THEN <<text>> ELSE m
      [] strategy = "LINE"      -> NonBlank(split(text, "line"))
      [] strategy = "SECTION"   -> NonBlank(split(text, "section"))
      [] strategy = "TURN"      -> NonBlank(split(text, "turn"))
      [] OTHER                  -> <<text>>

-----------------------------------------------------------------------------
(* CSV parsing (utils/textProcessing.ts)                                    *)

\* .replace(/^"|"$/g, ''): one double quote off the start and one off the end
stripQuotes(t) ==
    LET a == IF t # <<>> /\ t[1] = "\"" THEN 2 ELSE 1
        b == IF Len(t) >= a /\ t[Len(t)] = "\"" THEN Len(t) - 1 ELSE Len(t)
    IN  SubSeq(t, a, b)

RECURSIVE collapseQuotes(_)
\* .replace(/""/g, '"')
collapseQuotes(t) ==
    IF Len(t) >= 2 /\ t[1] = "\"" /\ t[2] = "\""
    THEN <<"\"">> \o collapseQuotes(SubSeq(t, 3, Len(t)))
    ELSE IF t = <<>> THEN <<>>
    ELSE <<Head(t)>> \o collapseQuotes(Tail(t))

\* the field cleaned without trimming it first (a mutant)
cleanField_untrimmed(current) == collapseQuotes(stripQuotes(current))

\* current.trim().replace(/^"|"$/g, '').replace(/""/g, '"')
cleanField(current) == collapseQuotes(stripQuotes(trim(current)))

RECURSIVE splitCSVLineFrom(_, _, _, _)
\* the loop of splitCSVLine at index i, with its inQuote flag and current field
splitCSVLineFrom(line, i, inQuote, current) ==
    IF i > Len(line) THEN <<cleanField(current)>>
    ELSE LET char == line[i]
             q == IF char = "\"" /\ (i = 1 \/ line[i - 1] # "\\") THEN ~inQuote ELSE inQuote
         IN  IF char = "," /\ ~q
             THEN <<cleanField(current)>> \o splitCSVLineFrom(line, i + 1, q, <<>>)
             ELSE splitCSVLineFrom(line, i + 1, q, Append(current, char))

splitCSVLine(line) == splitCSVLineFrom(line, 1, FALSE, <<>>)

\* parseCSVStructure taking every line after the first two as data (a mutant)
parseCSVStructure_skipsRow(content) ==
    LET lines == NonBlank(split(content, "newline"))
    IN  IF Len(lines) < 2 THEN [headers |-> <<>>, rows |-> <<>>, totalRows |-> 0]
        ELSE LET rows == [i \in 1..(Len(lines) - 2) |-> splitCSVLine(lines[i + 2])]
             IN  [headers |-> splitCSVLine(lines[1]), rows |-> rows, totalRows |-> Len(rows)]

parseCSVStructure(content) ==
    LET lines == NonBlank(split(content, "newline"))
    IN  IF Len(lines) < 2 THEN [headers |-> <<>>, rows |-> <<>>, totalRows |-> 0]
        ELSE LET rows == [i \in 1..(Len(lines) - 1) |-> splitCSVLine(lines[i + 1])]
             IN  [headers |-> splitCSVLine(lines[1]), rows |-> rows, totalRows |-> Len(rows)]

-----------------------------------------------------------------------------
(* Segmentation (services/step2_segment.ts)                                 *)

\* the string literals of the chunk texts and labels
strArrow == <<" ", ">", " ">>
strColon == <<":", " ">>
strBar == <<" ", "|", " ">>
strMeta == <<"[", "M", "e", "t", "a", ":", " ">>
strColumn == <<"[", "C", "o", "l", "u", "m", "n", ":", " ">>
strSentiment == <<"[", "S", "e", "n", "t", "i", "m", "e", "n", "t", " ",
                  "C", "o", "n", "t", "e", "x", "t", "]", " ">>
strIntro == <<"I", "n", "t", "r", "o", " ", "/", " ",
              "U", "n", "t", "i", "t", "l", "e", "d">>

\* a Chunk as performSegmentation builds it (tags: [])
Chunk(text, type, doc, sourceName) ==
    [text |-> text, type |-> type, sourceId |-> doc.id, sourceName |-> sourceName,
     tags |-> <<>>]

\* headers.indexOf(c), 1-based; 0 when c is no header
indexOf(headers, c) ==
    IF \E i \in 1..Len(headers) : headers[i] = c
    THEN CHOOSE i \in 1..Len(headers) :
             headers[i] = c /\ \A j \in 1..(i - 1) : headers[j] # c
    ELSE 0

\* row[idx] ? row[idx].replace(/^"|"$/g, '').trim() : ''
cellValue(headers, row, c) ==
    LET idx == indexOf(headers, c)
    IN  IF idx >= 1 /\ idx <= Len(row) THEN trim(stripQuotes(row[idx])) ELSE <<>>

RECURSIVE join(_, _)
\* Array.prototype.join
join(parts, sep) ==
    IF parts = <<>> THEN <<>>
    ELSE IF Len(parts) = 1 THEN parts[1]
    ELSE parts[1] \o sep \o join(Tail(parts), sep)

\* .filter(s => s)
NonEmpty(parts) == SelectSeq(parts, LAMBDA t : t # <<>>)

\* the context line of a row: contextCols.map(...).filter(s => s).join(' | ')
contextStr(headers, row, cfg) ==
    LET part(c) ==
            LET val == cellValue(headers, row, c)
            IN  IF val = <<>> THEN <<>>
                ELSE IF \E k \in 1..Len(cfg.sentimentContextColumns) :
                            cfg.sentimentContextColumns[k] = c
                THEN strSentiment \o c \o strColon \o val
                ELSE c \o strColon \o val
    IN  join(NonEmpty([k \in 1..Len(cfg.contextColumns) |-> part(cfg.contextColumns[k])]),
             strBar)

\* (contextStr ? `[Meta: ${contextStr}]\n` : '')
metaLine(ctx) == IF ctx = <<>> THEN <<>> ELSE strMeta \o ctx \o <<"]", "\n">>

\* the ROW_COMBINED branch prefixing the header name to every value (a mutant)
rowCombined_alwaysPrefixed(doc, headers, row, cfg, strategy) ==
    LET target == cfg.targetColumns
        part(c) ==
            LET val == cellValue(headers, row, c)
            IN  IF val = <<>> THEN <<>> ELSE c \o strColon \o val
        mainStr == join(NonEmpty([k \in 1..Len(target) |-> part(target[k])]), <<"\n">>)
    IN  IF trim(mainStr) # <<>>
        THEN <<Chunk(metaLine(contextStr(headers, row, cfg)) \o mainStr,
                     strategy, doc, doc.name)>>
        ELSE <<>>

\* the ROW_COMBINED branch for one row: at most one chunk
rowCombined(doc, headers, row, cfg, strategy) ==
    LET target == cfg.targetColumns
        part(c) ==
            LET val == cellValue(headers, row, c)
            IN  IF val = <<>> THEN <<>>
                ELSE IF Len(target) > 1 THEN c \o strColon \o val ELSE val
        mainStr == join(NonEmpty([k \in 1..Len(target) |-> part(target[k])]), <<"\n">>)
    IN  IF trim(mainStr) # <<>>
        THEN <<Chunk(metaLine(contextStr(headers, row, cfg)) \o mainStr,
                     strategy, doc, doc.name)>>
        ELSE <<>>

\* the distinct branch emitting a chunk for an empty value too (a mutant)
rowDistinct_keepsEmptyValues(doc, headers, row, cfg, strategy) ==
    LET target == cfg.targetColumns
        one(colName) ==
            LET val == cellValue(headers, row, colName)
            IN  IF indexOf(headers, colName) > 0
                THEN <<Chunk(metaLine(contextStr(headers, row, cfg))
                                \o strColumn \o colName \o <<"]", "\n">> \o val,
                             strategy, doc, doc.name \o strArrow \o colName)>>
                ELSE <<>>
    IN  Flatten([k \in 1..Len(target) |-> one(target[k])])

\* the ROW_DISTINCT_COLUMNS branch for one row: one chunk per target column with a value
rowDistinct(doc, headers, row, cfg, strategy) ==
    LET target == cfg.targetColumns
        one(colName) ==
            LET val == cellValue(headers, row, colName)
            IN  IF indexOf(headers, colName) > 0 /\ val # <<>>
                THEN <<Chunk(metaLine(contextStr(headers, row, cfg))
                                \o strColumn \o colName \o <<"]", "\n">> \o val,
                             strategy, doc, doc.name \o strArrow \o colName)>>
                ELSE <<>>
    IN  Flatten([k \in 1..Len(target) |-> one(target[k])])

\* the csv case choosing its branch by the config's strategy (a mutant)
csvChunks_byConfigStrategy(doc, strategy, cfg, hierarchical) ==
    LET st == parseCSVStructure(doc.content)
    IN  Flatten([r \in 1..Len(st.rows) |->
                    IF cfg.strategy = "DISTINCT"
                    THEN rowDistinct(doc, st.headers, st.rows[r], cfg, strategy)
                    ELSE rowCombined(doc, st.headers, st.rows[r], cfg, strategy)])

\* CASE 2 of performSegmentation: a document of type 'csv'
csvChunks(doc, strategy, cfg, hierarchical) ==
    LET st == parseCSVStructure(doc.content)
    IN  Flatten([r \in 1..Len(st.rows) |->
                    IF hierarchical
                    THEN rowDistinct(doc, st.headers, st.rows[r], cfg, strategy)
                    ELSE rowCombined(doc, st.headers, st.rows[r], cfg, strategy)])

\* new RegExp(`^\\s*#{L}\\s`).test(section): the piece is a heading of the level
isHeaderPiece(L, section) ==
    LET a == SkipWhile(section, 1, WhiteSpace)
        h == SkipWhile(section, a, {"#"})
    IN  h - a = L /\ h <= Len(section) /\ section[h] \in WhiteSpace

\* section.trim().replace(/^[#\s]+/, '').trim()
headerTitle(section) ==
    LET t == trim(section)
    IN  trim(SubSeq(t, SkipWhile(t, 1, WhiteSpace \cup {"#"}), Len(t)))

RECURSIVE sectionChunks(_, _, _, _, _, _)
\* sections.forEach(...) from piece i on, with the header the loop holds
sectionChunks(doc, strategy, L, sections, i, currentHeader) ==
    IF i > Len(sections) THEN <<>>
    ELSE LET section == sections[i]
             label == doc.name \o strArrow \o currentHeader
         IN  IF trim(section) = <<>>
                 THEN sectionChunks(doc, strategy, L, sections, i + 1, currentHeader)
             ELSE IF isHeaderPiece(L, section)
                 THEN sectionChunks(doc, strategy, L, sections, i + 1, headerTitle(section))
             ELSE IF strategy = "SUBSECTION"
                 THEN <<Chunk(trim(section), strategy, doc, label)>>
                      \o sectionChunks(doc, strategy, L, sections, i + 1, currentHeader)
             ELSE LET inner == splitRawText(section, strategy)
                  IN  [k \in 1..Len(inner) |-> Chunk(inner[k], strategy, doc, label)]
                      \o sectionChunks(doc, strategy, L, sections, i + 1, currentHeader)

\* Math.min(6, splitLevel + 1) for SUBSECTION, else splitLevel
effectiveLevel(strategy, splitLevel) ==
    IF strategy = "SUBSECTION"
    THEN (IF splitLevel + 1 < 6 THEN splitLevel + 1 ELSE 6)
    ELSE splitLevel

\* CASE 3 of performSegmentation: text or Markdown with hierarchy
hierChunks(doc, strategy, splitLevel) ==
    LET L == effectiveLevel(strategy, splitLevel)
        sections == SplitFrom(doc.content,
                              [re |-> "heading", level |-> L, capture |-> TRUE], 1, 1)
    IN  sectionChunks(doc, strategy, L, sections, 1, strIntro)

\* the values currentHeader takes in the loop of the hierarchical case, in
\* order: the title of every piece of the split that passes the header test
sectionHeaders(doc, L) ==
    LET sections == SplitFrom(doc.content,
                              [re |-> "heading", level |-> L, capture |-> TRUE], 1, 1)
        heads == SelectSeq(sections, LAMBDA section : trim(section) # <<>>
                                                      /\ isHeaderPiece(L, section))
    IN  [k \in 1..Len(heads) |-> headerTitle(heads[k])]

\* flatChunks with the pieces left untrimmed (a mutant)
flatChunks_untrimmed(doc, strategy) ==
    LET splitText == splitRawText(doc.content, strategy)
    IN  [k \in 1..Len(splitText) |-> Chunk(splitText[k], strategy, doc, doc.name)]

\* CASE 4 of performSegmentation: flat text
flatChunks(doc, strategy) ==
    LET splitText == splitRawText(doc.content, strategy)
    IN  [k \in 1..Len(splitText) |-> Chunk(trim(splitText[k]), strategy, doc, doc.name)]

\* the body of docs.forEach in performSegmentation
docChunks(doc, strategy, cfg, hierarchical, splitLevel) ==
    IF strategy = "FILE" THEN <<Chunk(doc.content, strategy, doc, doc.name)>>
    ELSE IF doc.type = "csv" THEN csvChunks(doc, strategy, cfg, hierarchical)
    ELSE IF hierarchical THEN hierChunks(doc, strategy, splitLevel)
    ELSE flatChunks(doc, strategy)

\* the n-th call of generateId since the segmentation began: the string made of
\* the n-th value of the random source (past the values listed in random, a
\* value no other call gets)
generateId(n) == IF n <= Len(random) THEN random[n] ELSE -n

\* every chunk is built with id: generateId(), one call per chunk, in the
\* order of the returned sequence
withIds(cs) ==
    [n \in 1..Len(cs) |->
        [id |-> generateId(n), text |-> cs[n].text, type |-> cs[n].type,
         sourceId |-> cs[n].sourceId, sourceName |-> cs[n].sourceName, tags |-> cs[n].tags]]

\* performSegmentation putting the chunks of each document before those of
\* the documents that precede it (a mutant)
performSegmentation_lastDocFirst(docs, strategy, cfg, hierarchical, splitLevel) ==
    withIds(Flatten([i \in 1..Len(docs) |->
                        docChunks(docs[Len(docs) + 1 - i], strategy, cfg, hierarchical,
                                  splitLevel)]))

performSegmentation(docs, strategy, cfg, hierarchical, splitLevel) ==
    withIds(Flatten([i \in 1..Len(docs) |->
                        docChunks(docs[i], strategy, cfg, hierarchical, splitLevel)]))


-----------------------------------------------------------------------------
(* Ingestion (services/step1_ingest.ts)                                     *)

UpperSeq == <<"A", "B", "C", "D", "E", "F", "G", "H", "I", "J", "K", "L", "M",
              "N", "O", "P", "Q", "R", "S", "T", "U", "V", "W", "X", "Y", "Z">>
LowerSeq == <<"a", "b", "c", "d", "e", "f", "g", "h", "i", "j", "k", "l", "m",
              "n", "o", "p", "q", "r", "s", "t", "u", "v", "w", "x", "y", "z">>

\* String.prototype.toLowerCase
toLowerCase(s) ==
    [i \in 1..Len(s) |->
        IF s[i] \in Upper THEN LowerSeq[CHOOSE k \in 1..26 : UpperSeq[k] = s[i]] ELSE s[i]]

RECURSIVE lastIndexOf(_, _, _)
\* the last index <= q of s that holds character c (0 if none)
lastIndexOf(s, c, q) == IF q >= 1 /\ s[q] # c THEN lastIndexOf(s, c, q - 1) ELSE q

\* file.name.split('.').pop()?.toLowerCase()
extensionOf(name) ==
    toLowerCase(SubSeq(name, lastIndexOf(name, ".", Len(name)) + 1, Len(name)))

strCsv == <<"c", "s", "v">>
strMd == <<"m", "d">>
strMarkdown == <<"m", "a", "r", "k", "d", "o", "w", "n">>
strTextCsv == <<"t", "e", "x", "t", "/", "c", "s", "v">>
strManualInput == <<"M", "a", "n", "u", "a", "l", " ", "I", "n", "p", "u", "t">>

\* /^#{1,6}\s+.+$/m.test(text)
hasMarkdownHeaders(text) ==
    \E q \in 1..Len(text) :
        LET h == SkipWhile(text, q, {"#"})
        IN  LineStart(text, q) /\ h - q >= 1 /\ h - q <= 6 /\ headingTail(text, h) # 0

\* csvAttempt.rows.slice(0, 5)
SampleRows == 5

\* the strict CSV check of ingestFile and ingestManualText: at least 2
\* columns, at least 1 row, and the first rows as wide as the header
looksLikeCsv(text) ==
    LET csvAttempt == parseCSVStructure(text)
        colCount == Len(csvAttempt.headers)
    IN  /\ colCount >= 2
        /\ Len(csvAttempt.rows) > 0
        /\ \A r \in 1..Len(csvAttempt.rows) : r <= SampleRows => Len(csvAttempt.rows[r]) = colCount
        /\ csvAttempt.totalRows > 0

\* ingestFile storing whatever header row it parsed for a csv document (a mutant)
ingestFile_keepsEmptyHeaders(file, id) ==
    LET extension == extensionOf(file.name)
        type == IF extension = strCsv \/ file.type = strTextCsv THEN "csv"
                ELSE IF extension = strMd \/ extension = strMarkdown THEN "markdown"
                ELSE IF looksLikeCsv(file.text) THEN "csv"
                ELSE IF hasMarkdownHeaders(file.text) THEN "markdown"
                ELSE "text"
    IN  [id |-> id, name |-> file.name, content |-> file.text, type |-> type,
         csvHeaders |-> IF type = "csv" THEN Some(parseCSVStructure(file.text).headers)
                        ELSE None]

ingestFile(file, id) ==
    LET extension == extensionOf(file.name)
        type == IF extension = strCsv \/ file.type = strTextCsv THEN "csv"
                ELSE IF extension = strMd \/ extension = strMarkdown THEN "markdown"
                ELSE IF looksLikeCsv(file.text) THEN "csv"
                ELSE IF hasMarkdownHeaders(file.text) THEN "markdown"
                ELSE "text"
        csvHeaders == IF type = "csv" THEN parseCSVStructure(file.text).headers ELSE <<>>
    IN  [id |-> id, name |-> file.name, content |-> file.text, type |-> type,
         csvHeaders |-> IF Len(csvHeaders) > 0 THEN Some(csvHeaders) ELSE None]

ingestManualText(text, id) ==
    LET type == IF looksLikeCsv(text) THEN "csv"
                ELSE IF hasMarkdownHeaders(text) THEN "markdown"
                ELSE "text"
    IN  [id |-> id, name |-> strManualInput, content |-> text, type |-> type,
         csvHeaders |-> IF type = "csv" THEN Some(parseCSVStructure(text).headers) ELSE None]


-----------------------------------------------------------------------------
(* guessCSVConfig (utils/textProcessing.ts)                                 *)

HexDigit == Digit \cup {"a", "b", "c", "d", "e", "f", "A", "B", "C", "D", "E", "F"}
strInfinity == <<"I", "n", "f", "i", "n", "i", "t", "y">>

\* t from index q is an unsigned decimal literal: digits, an optional
\* fraction, an optional exponent, with a digit in the mantissa
isDecimalLiteral(t, q) ==
    LET d1 == SkipWhile(t, q, Digit)
        dot == d1 <= Len(t) /\ t[d1] = "."
        d2 == IF dot THEN SkipWhile(t, d1 + 1, Digit) ELSE d1
        mantissa == d1 > q \/ (dot /\ d2 > d1 + 1)
        exp == d2 <= Len(t) /\ t[d2] \in {"e", "E"}
        e1 == IF exp /\ d2 + 1 <= Len(t) /\ t[d2 + 1] \in {"+", "-"} THEN d2 + 2 ELSE d2 + 1
        d3 == IF exp THEN SkipWhile(t, e1, Digit) ELSE d2
    IN  mantissa /\ (exp => d3 > e1) /\ d3 = Len(t) + 1

\* t is 0x, 0o or 0b (in either case) followed by digits of that radix
isRadixLiteral(t) ==
    /\ Len(t) >= 3
    /\ t[1] = "0"
    /\ LET digits == CASE t[2] \in {"x", "X"} -> HexDigit
                       [] t[2] \in {"o", "O"} -> {"0", "1", "2", "3", "4", "5", "6", "7"}
                       [] t[2] \in {"b", "B"} -> {"0", "1"}
                       [] OTHER -> {}
       IN  \A k \in 3..Len(t) : t[k] \in digits

\* isNaN(Number(cell)): the cell is not a numeric string
isNaNNumber(cell) ==
    LET t == trim(cell)
        q == IF t # <<>> /\ t[1] \in {"+", "-"} THEN 2 ELSE 1
    IN  ~ \/ t = <<>>
          \/ isRadixLiteral(t)
          \/ SubSeq(t, q, Len(t)) = strInfinity
          \/ isDecimalLiteral(t, q)

\* name.includes(sub)
includes(name, sub) ==
    \E k \in 1..(Len(name) - Len(sub) + 1) : SubSeq(name, k, k + Len(sub) - 1) = sub

\* the header keywords of isExplicitText and of isId
TextKeywords == {<<"t", "e", "x", "t">>, <<"c", "o", "m", "m", "e", "n", "t">>, <<"d", "e", "s", "c">>, <<"c", "o", "n", "t", "e", "n", "t">>,
                 <<"f", "e", "e", "d", "b", "a", "c", "k">>, <<"i", "m", "p", "r", "o", "v", "e">>, <<"w", "o", "r", "k">>,
                 <<"r", "e", "s", "p", "o", "n", "s", "e">>, <<"v", "a", "l", "u", "a", "b", "l", "e">>}
IdKeywords == {<<"i", "d">>, <<"c", "o", "d", "e">>}
strNo == <<"n", "o">>

\* rows.slice(0, 30)
GuessSample == 30

\* the counters of sample.forEach for column i (from 0), rows r.. of the sample
RECURSIVE columnStats(_, _, _, _)
columnStats(sample, i, r, acc) ==
    IF r > Len(sample) THEN acc
    ELSE LET row == sample[r]
             cell == IF i + 1 <= Len(row) THEN row[i + 1] ELSE <<>>
         IN  IF cell # <<>>
             THEN columnStats(sample, i, r + 1,
                      [validCount |-> acc.validCount + 1,
                       totalLen |-> acc.totalLen + Len(cell),
                       nonNumeric |-> acc.nonNumeric + (IF isNaNNumber(cell) THEN 1 ELSE 0)])
             ELSE columnStats(sample, i, r + 1, acc)

\* the role the body of headers.forEach gives column i: "analyze", "context" or "none"
columnRole(h, st) ==
    IF st.validCount > 0
    THEN LET name == toLowerCase(h)
             isExplicitText == \E kw \in TextKeywords : includes(name, kw)
             \* nonNumRatio > 0.6 && avgLen > 30
             isLongText == 10 * st.nonNumeric > 6 * st.validCount
                           /\ st.totalLen > 30 * st.validCount
             isId == (\E kw \in IdKeywords : includes(name, kw)) \/ name = strNo
             \* avgLen < 20 && nonNumRatio > 0.1 && !isExplicitText
             isCategory == st.totalLen < 20 * st.validCount
                           /\ 10 * st.nonNumeric > st.validCount /\ ~isExplicitText
             \* nonNumRatio < 0.1
             isMetric == 10 * st.nonNumeric < st.validCount
         IN  IF isExplicitText \/ isLongText THEN "analyze"
             ELSE IF isCategory \/ isId \/ isMetric THEN "context"
             ELSE "none"
    ELSE "none"

\* the roles of all columns, given how many rows are sampled
columnRoles(struct, n) ==
    LET sample == SubSeq(struct.rows, 1, IF Len(struct.rows) < n THEN Len(struct.rows) ELSE n)
    IN  [k \in 1..Len(struct.headers) |->
            columnRole(struct.headers[k],
                       columnStats(sample, k - 1, 1,
                                   [validCount |-> 0, totalLen |-> 0, nonNumeric |-> 0]))]

columnsWithRole(roles, role) ==
    SelectSeq([k \in 1..Len(roles) |-> k - 1], LAMBDA i : roles[i + 1] = role)

\* guessCSVConfig sampling every row (a mutant)
guessCSVConfig_samplesAllRows(struct) ==
    LET roles == columnRoles(struct, Len(struct.rows))
        analyzeCols == columnsWithRole(roles, "analyze")
    IN  [analyzeCols |-> IF analyzeCols = <<>> /\ Len(struct.headers) > 0
                         THEN <<Len(struct.headers) - 1>> ELSE analyzeCols,
         contextCols |-> columnsWithRole(roles, "context")]

\* guessCSVConfig without its last-column fallback (a mutant)
guessCSVConfig_noFallback(struct) ==
    LET roles == columnRoles(struct, GuessSample)
    IN  [analyzeCols |-> columnsWithRole(roles, "analyze"),
         contextCols |-> columnsWithRole(roles, "context")]

guessCSVConfig(struct) ==
    LET roles == columnRoles(struct, GuessSample)
        analyzeCols == columnsWithRole(roles, "analyze")
    IN  [analyzeCols |-> IF analyzeCols = <<>> /\ Len(struct.headers) > 0
                         THEN <<Len(struct.headers) - 1>> ELSE analyzeCols,
         contextCols |-> columnsWithRole(roles, "context")]

-----------------------------------------------------------------------------
(* The application state and its operations (App.tsx)                       *)

\* the bounded inputs
MaxLen == 4        \* longest document content enumerated character by character
MaxLines == 3      \* most lines of a document enumerated line by line

\* every string over alphabet of at most n characters
Strings(alphabet, n) == UNION {[1..k -> alphabet] : k \in 0..n}

\* every text of 1..n lines drawn from forms, joined by line breaks
LineTexts(forms, n) ==
    {join(ls, <<"\n">>) : ls \in UNION {[1..k -> forms] : k \in 1..n}}

Granularity == {"WHOLE", "PARAGRAPH", "SENTENCE", "LINE", "TURN", "SECTION", "HEADING",
                "SUBSECTION", "FILE", "RESPONSE", "PHRASE", "ROW_COMBINED",
                "ROW_DISTINCT_COLUMNS"}
Levels == 1..6

emptyStructure == [headers |-> <<>>, rows |-> <<>>, totalRows |-> 0]
initialCsvConfig == [targetColumns |-> <<>>, contextColumns |-> <<>>,
                     sentimentContextColumns |-> <<>>, strategy |-> "DISTINCT"]

\* useState<AppState>({...}) of App, before any input is chosen
InitApp ==
    /\ files = <<>>
    /\ documents = <<>>
    /\ chunks = <<>>
    /\ segmentationStrategy = "PARAGRAPH"
    /\ isHierarchical = FALSE
    /\ markdownSplitLevel = 1
    /\ csvConfig = initialCsvConfig
    /\ manualInput = <<>>
    /\ structure = emptyStructure
    /\ guess = None
    /\ random = <<>>
    /\ local = None
    /\ pc = "ready"

File(name, type, text) == [name |-> name, type |-> type, text |-> text]

\* the documents handleFileUpload appends for a FileList (ids: what generateId returned)
ingestAll(fileList, ids) == [i \in 1..Len(fileList) |-> ingestFile(fileList[i], ids[i])]

docIds == <<"d1", "d2">>

\* updateSegmentation(strat, hierarchical, level)
UpdateSegmentation(strat, hierarchical, level) ==
    /\ pc \in {"ready", "saved"}
    /\ documents # <<>>
    /\ chunks' = performSegmentation(documents, strat, csvConfig, hierarchical, level)
    /\ segmentationStrategy' = strat
    /\ isHierarchical' = hierarchical
    /\ markdownSplitLevel' = level
    /\ pc' = "done"
    /\ UNCHANGED <<random, local, files, documents, csvConfig, manualInput, structure, guess>>

(* Text and Markdown documents: every content of at most MaxLen characters  *)
(* over TextAlphabet, and every content of at most MaxLines lines drawn     *)
(* from TextLines, plus the example document of the specification.          *)
TextAlphabet == {"a", " ", "\n", "#", "."}
TextLines == {<<>>, <<"#", " ", "T">>, <<"#", "#", " ", "A">>, <<"f", "o", "o">>,
              <<"#", "#", " ", "B">>, <<" ", "b", ".", " ", "c">>}
ExampleMarkdown ==
    <<"#", " ", "T", "i", "t", "l", "e", "\n", "\n", "#", "#", " ", "A", "\n",
      "f", "o", "o", "\n", "\n", "#", "#", " ", "B", "\n", "b", "a", "r">>
ExamplePhrases == <<"a", ",", " ", "b", ";", " ", "c">>
TextContents ==
    Strings(TextAlphabet, MaxLen) \cup LineTexts(TextLines, MaxLines)
        \cup {ExampleMarkdown, ExamplePhrases}
strDocTxt == <<"d", ".", "t", "x", "t">>
TextFileLists == {<<File(strDocTxt, <<>>, t)>> : t \in TextContents}

HandleFileUpload(fileList) ==
    /\ pc = "ready"
    /\ documents = <<>>
    /\ files' = fileList
    /\ documents' = documents \o ingestAll(fileList, docIds)
    /\ UNCHANGED <<random, local, chunks, segmentationStrategy, isHierarchical, markdownSplitLevel,
                   csvConfig, manualInput, structure, guess, pc>>

Next ==
    \/ \E fl \in TextFileLists : HandleFileUpload(fl)
    \/ \E strat \in Granularity : UpdateSegmentation(strat, FALSE, 1)
    \/ \E strat \in Granularity, level \in Levels : UpdateSegmentation(strat, TRUE, level)

Spec == InitApp /\ [][Next]_vars


-----------------------------------------------------------------------------
(* Reference notions the claims are stated with, defined from positions     *)
(* rather than by the code's split and trim                                *)

\* the indices of t that hold a line break
BreaksOf(t) == {i \in 1..Len(t) : t[i] = "\n"}
\* the position of the k-th line break of t; 0 for k = 0, Len(t) + 1 past the last
BreakAt(t, k) ==
    IF k = 0 THEN 0
    ELSE IF k > Cardinality(BreaksOf(t)) THEN Len(t) + 1
    ELSE CHOOSE i \in BreaksOf(t) : Cardinality({j \in BreaksOf(t) : j <= i}) = k
\* the lines of t: the text between consecutive line breaks
LinesOf(t) ==
    [k \in 1..(Cardinality(BreaksOf(t)) + 1) |->
        SubSeq(t, BreakAt(t, k - 1) + 1, BreakAt(t, k) - 1)]
\* l without its leading and trailing whitespace
Trimmed(l) ==
    LET solid == {i \in 1..Len(l) : l[i] \notin WhiteSpace}
    IN  IF solid = {} THEN <<>>
        ELSE SubSeq(l, CHOOSE i \in solid : \A j \in solid : i <= j,
                       CHOOSE i \in solid : \A j \in solid : j <= i)
IsBlank(l) == Trimmed(l) = <<>>
\* the text of every chunk, in order
TextsOf(cs) == [i \in 1..Len(cs) |-> cs[i].text]

-----------------------------------------------------------------------------
(* Claims about performSegmentation on text and Markdown documents          *)

\* C1: every chunk returned by performSegmentation has a text that is
\* non-empty after trimming (so an empty or whitespace-only document
\* contributes no chunk), whatever the granularity, hierarchy flag and level.
C1_NoBlankChunk ==
    pc = "done" => \A i \in 1..Len(chunks) : trim(chunks[i].text) # <<>>

\* C2: every chunk returned by performSegmentation has a text with no
\* leading and no trailing whitespace.
C2_ChunkTextTrimmed ==
    pc = "done" => \A i \in 1..Len(chunks) : chunks[i].text = trim(chunks[i].text)

\* A line that is exactly k '#', one space and a title without surrounding whitespace
IsHeadingLine(l, k) ==
    /\ Len(l) >= k + 2
    /\ \A i \in 1..k : l[i] = "#"
    /\ l[k + 1] = " "
    /\ l[k + 2] \notin WhiteSpace \cup {"#"}
    /\ l[Len(l)] \notin WhiteSpace
    /\ \A i \in (k + 2)..Len(l) : l[i] \notin LineTerminator
\* A line of paragraph text: not blank, no surrounding whitespace, no leading '#'
IsPlainLine(l) ==
    /\ l # <<>>
    /\ l[1] \notin WhiteSpace \cup {"#"}
    /\ l[Len(l)] \notin WhiteSpace
    /\ \A i \in 1..Len(l) : l[i] \notin LineTerminator

\* The documents claim C3 is about: a title line of a level shallower than
\* L, then only blank lines, level-L heading lines and paragraph lines, no
\* paragraph line before the first level-L heading.
TitledShape(content, L) ==
    LET ls == LinesOf(content)
    IN  /\ Len(ls) >= 2
        /\ \E k \in 1..(L - 1) : IsHeadingLine(ls[1], k)
        /\ \A i \in 2..Len(ls) : ls[i] = <<>> \/ IsHeadingLine(ls[i], L) \/ IsPlainLine(ls[i])
        /\ \E i \in 2..Len(ls) : IsHeadingLine(ls[i], L)
        /\ \A i \in 2..Len(ls) :
               IsPlainLine(ls[i]) => \E j \in 2..(i - 1) : IsHeadingLine(ls[j], L)

RECURSIVE ParagraphsUnderHeadings(_, _, _, _, _, _)
\* What claim C3 expects of such a document: one (label, text) per paragraph
\* under each level-L heading, walking the lines from i with the title and
\* the paragraph lines gathered so far.
ParagraphsUnderHeadings(name, ls, L, i, title, para) ==
    LET emit == IF para = <<>> THEN <<>>
                ELSE <<[sourceName |-> name \o strArrow \o title,
                        text |-> join(para, <<"\n">>)]>>
    IN  IF i > Len(ls) THEN emit
        ELSE IF IsHeadingLine(ls[i], L)
            THEN emit \o ParagraphsUnderHeadings(name, ls, L, i + 1,
                                                 SubSeq(ls[i], L + 2, Len(ls[i])), <<>>)
        ELSE IF ls[i] = <<>>
            THEN emit \o ParagraphsUnderHeadings(name, ls, L, i + 1, title, <<>>)
        ELSE ParagraphsUnderHeadings(name, ls, L, i + 1, title, Append(para, ls[i]))

LabelsAndTexts(cs) == [i \in 1..Len(cs) |-> [sourceName |-> cs[i].sourceName, text |-> cs[i].text]]

\* C3: hierarchical PARAGRAPH splitting at level L of a Markdown document
\* whose only text before the first level-L heading is a title line of a
\* shallower level yields exactly one chunk per paragraph under each level-L
\* heading, labelled "<doc> > <heading title>" with the paragraph as text,
\* and no chunk for the "Intro / Untitled" section.
C3_TitledDocumentSections ==
    (/\ pc = "done"
     /\ isHierarchical
     /\ segmentationStrategy = "PARAGRAPH"
     /\ Len(documents) = 1
     /\ TitledShape(documents[1].content, markdownSplitLevel))
    => LabelsAndTexts(chunks) =
           ParagraphsUnderHeadings(documents[1].name, LinesOf(documents[1].content),
                                   markdownSplitLevel, 2, <<>>, <<>>)


-----------------------------------------------------------------------------
(* LINE splitting of flat text: documents of at most MaxLineLen characters  *)

MaxLineLen == 6
LineAlphabet == {"a", " ", "\n", "\r"}
LineFileLists == {<<File(strDocTxt, <<>>, t)>> : t \in Strings(LineAlphabet, MaxLineLen)}

NextLine ==
    \/ \E fl \in LineFileLists : HandleFileUpload(fl)
    \/ UpdateSegmentation("LINE", isHierarchical, markdownSplitLevel)

SpecLine == InitApp /\ [][NextLine]_vars

\* the lines of ls from its first to its last non-blank line
StripBlankEnds(ls) ==
    LET solid == {i \in 1..Len(ls) : ~IsBlank(ls[i])}
    IN  IF solid = {} THEN <<>>
        ELSE SubSeq(ls, CHOOSE i \in solid : \A j \in solid : i <= j,
                        CHOOSE i \in solid : \A j \in solid : j <= i)

LineSplitDone ==
    pc = "done" /\ segmentationStrategy = "LINE" /\ ~isHierarchical /\ Len(documents) = 1

\* C4 as stated: joining the LINE chunks of a flat document by a single line
\* break gives back the content, up to leading and trailing blank lines.
C4_LineRoundTrip ==
    LineSplitDone =>
        join(TextsOf(chunks), <<"\n">>)
            = join(StripBlankEnds(LinesOf(documents[1].content)), <<"\n">>)

\* C4 amended: joining the LINE chunks by a single line break gives back the
\* content with every blank line removed (not only the leading and trailing
\* ones) and every remaining line trimmed of leading and trailing whitespace.
C4_LineRoundTripAmended ==
    LineSplitDone =>
        LET ls == LinesOf(documents[1].content)
        IN  join(TextsOf(chunks), <<"\n">>)
                = join(SelectSeq([i \in 1..Len(ls) |-> Trimmed(ls[i])],
                                 LAMBDA l : l # <<>>), <<"\n">>)

\* a LINE split of a document with a blank line between two non-blank lines
C4_Witness ==
    /\ LineSplitDone
    /\ Len(chunks) >= 2
    /\ \E i \in 2..(Len(LinesOf(documents[1].content)) - 1) :
           /\ IsBlank(LinesOf(documents[1].content)[i])
           /\ ~IsBlank(LinesOf(documents[1].content)[i - 1])
           /\ ~IsBlank(LinesOf(documents[1].content)[i + 1])


-----------------------------------------------------------------------------
(* parseCSVStructure on every content of at most MaxCsvLen characters       *)

MaxCsvLen == 5
CsvAlphabet == {"a", ",", "\n", "\r", " "}
strDocCsv == <<"d", ".", "c", "s", "v">>
CsvFileLists == {<<File(strDocCsv, <<>>, t)>> : t \in Strings(CsvAlphabet, MaxCsvLen)}

\* const structure = parseCSVStructure(doc.content)
ParseCSVStructure ==
    /\ pc = "ready"
    /\ Len(documents) = 1
    /\ structure' = parseCSVStructure(documents[1].content)
    /\ pc' = "done"
    /\ UNCHANGED <<random, local, files, documents, chunks, segmentationStrategy, isHierarchical,
                   markdownSplitLevel, csvConfig, manualInput, guess>>

NextParse ==
    \/ \E fl \in CsvFileLists : HandleFileUpload(fl)
    \/ ParseCSVStructure

SpecParse == InitApp /\ [][NextParse]_vars

\* the lines of t as /\r?\n/ separates them: a carriage return just before a
\* line break belongs to the break
CsvLinesOf(t) ==
    LET ls == LinesOf(t)
    IN  [k \in 1..Len(ls) |->
            IF k < Len(ls) /\ ls[k] # <<>> /\ ls[k][Len(ls[k])] = "\r"
            THEN SubSeq(ls[k], 1, Len(ls[k]) - 1) ELSE ls[k]]
NonBlankCsvLines(t) == SelectSeq(CsvLinesOf(t), LAMBDA l : ~IsBlank(l))

\* C5: parseCSVStructure returns the empty table when the content has fewer
\* than 2 non-blank lines; otherwise headers is the tokenization of the first
\* non-blank line, rows the tokenization of every remaining non-blank line in
\* source order (none dropped, padded or truncated) and totalRows their number.
C5_ParseStructure ==
    pc = "done" =>
        LET nb == NonBlankCsvLines(documents[1].content)
        IN  IF Len(nb) < 2
            THEN structure = [headers |-> <<>>, rows |-> <<>>, totalRows |-> 0]
            ELSE /\ structure.headers = splitCSVLine(nb[1])
                 /\ Len(structure.rows) = Len(nb) - 1
                 /\ \A i \in 1..(Len(nb) - 1) : structure.rows[i] = splitCSVLine(nb[i + 1])
                 /\ structure.totalRows = Len(nb) - 1

\* a parsed table with two data rows, one of them wider than the header
C5_Witness ==
    /\ pc = "done"
    /\ Len(structure.rows) = 2
    /\ \E i \in 1..2 : Len(structure.rows[i]) > Len(structure.headers)


-----------------------------------------------------------------------------
(* Ingestion: files of every name, media type and content of IngestFiles,   *)
(* and the same contents pasted as manual input                             *)

MaxIngestLen == 3      \* longest content enumerated character by character
MaxIngestLines == 7    \* most lines of a content enumerated line by line
IngestAlphabet == {"a", ",", "\n", "#", " "}
IngestLines == {<<",">>, <<"a">>}
IngestContents ==
    Strings(IngestAlphabet, MaxIngestLen) \cup LineTexts(IngestLines, MaxIngestLines)
strTextPlain == <<"t", "e", "x", "t", "/", "p", "l", "a", "i", "n">>
FileNames == {strDocTxt, strDocCsv, <<"D", ".", "C", "S", "V">>, <<"d", ".", "m", "d">>,
              <<"a", ".", "b", ".", "m", "a", "r", "k", "d", "o", "w", "n">>,
              <<"n", "o", "t", "e", "s">>}
MediaTypes == {<<>>, strTextCsv, strTextPlain}
IngestFileLists ==
    {<<File(n, ty, t)>> : n \in FileNames, ty \in MediaTypes, t \in IngestContents}

\* onChange of the manual input textarea: setManualInput(e.target.value)
SetManualInput(text) ==
    /\ pc = "ready"
    /\ documents = <<>>
    /\ manualInput' = text
    /\ pc' = "typed"
    /\ UNCHANGED <<random, local, files, documents, chunks, segmentationStrategy, isHierarchical,
                   markdownSplitLevel, csvConfig, structure, guess>>

AddManualDoc ==
    /\ pc = "typed"
    /\ trim(manualInput) # <<>>
    /\ documents' = Append(documents, ingestManualText(manualInput, docIds[Len(documents) + 1]))
    /\ manualInput' = <<>>
    /\ pc' = "ready"
    /\ UNCHANGED <<random, local, files, chunks, segmentationStrategy, isHierarchical,
                   markdownSplitLevel, csvConfig, structure, guess>>

NextIngest ==
    \/ documents = <<>> /\ \E fl \in IngestFileLists : HandleFileUpload(fl)
    \/ documents = <<>> /\ \E text \in IngestContents : SetManualInput(text)
    \/ AddManualDoc

SpecIngest == InitApp /\ [][NextIngest]_vars

\* the document ingestFile made of the uploaded file
FromFile == files # <<>> /\ Len(documents) = 1
\* the document ingestManualText made of the pasted text
FromManual == files = <<>> /\ Len(documents) = 1

\* the extension of a file name: what follows its last '.', in lower case
Extension(name) ==
    LET dots == {k \in 1..Len(name) : name[k] = "."}
        from == IF dots = {} THEN 1 ELSE (CHOOSE k \in dots : \A j \in dots : j <= k) + 1
    IN  [k \in 1..(Len(name) - from + 1) |->
            LET c == name[from + k - 1]
            IN  IF \E j \in 1..Len(UpperSeq) : UpperSeq[j] = c
                THEN LowerSeq[CHOOSE j \in 1..Len(UpperSeq) : UpperSeq[j] = c] ELSE c]

\* the table of a content has at least 2 header columns and a data row, and
\* each of its first up-to-5 data rows is as wide as the header
TabularContent(t) ==
    LET nb == NonBlankCsvLines(t)
    IN  /\ Len(nb) >= 2
        /\ Len(splitCSVLine(nb[1])) >= 2
        /\ \A r \in 2..Len(nb) : r <= 6 => Len(splitCSVLine(nb[r])) = Len(splitCSVLine(nb[1]))

\* a line that is 1 to 6 '#', then whitespace, then at least one more character
IsMarkdownHeaderLine(l) ==
    \E k \in 1..6 :
        /\ Len(l) >= k + 2
        /\ \A j \in 1..k : l[j] = "#"
        /\ l[k + 1] \in WhiteSpace
SomeHeaderLine(t) == \E k \in 1..Len(LinesOf(t)) : IsMarkdownHeaderLine(LinesOf(t)[k])

KindByPrecedence(file) ==
    IF Extension(file.name) = strCsv \/ file.type = strTextCsv THEN "csv"
    ELSE IF Extension(file.name) \in {strMd, strMarkdown} THEN "markdown"
    ELSE IF TabularContent(file.text) THEN "csv"
    ELSE IF SomeHeaderLine(file.text) THEN "markdown"
    ELSE "text"

\* C6: ingestFile gives a file the kind 'csv' if its extension is csv or its
\* media type text/csv; else 'markdown' if its extension is md or markdown;
\* else 'csv' iff its table has 2 or more header columns, a data row and first
\* up-to-5 data rows as wide as the header; else 'markdown' if some line is 1
\* to 6 '#' followed by whitespace and text; else 'text'.
C6_KindPrecedence ==
    FromFile => documents[1].type = KindByPrecedence(files[1])

\* C7 as stated: csvHeaders is present iff the document's kind is 'csv', and
\* when present it is the parsed header row of the content.
C7_HeadersIffCsv ==
    \A i \in 1..Len(documents) :
        /\ documents[i].csvHeaders # None <=> documents[i].type = "csv"
        /\ documents[i].csvHeaders # None =>
               documents[i].csvHeaders = Some(parseCSVStructure(documents[i].content).headers)

\* C7 amended: csvHeaders is present iff the document's kind is 'csv' and its
\* content has at least two non-blank lines (a header line and a data line);
\* when present it is the tokenization of the first non-blank line.
C7_HeadersIffCsvWithRows ==
    \A i \in 1..Len(documents) :
        LET nb == NonBlankCsvLines(documents[i].content)
        IN  /\ documents[i].csvHeaders # None <=> (documents[i].type = "csv" /\ Len(nb) >= 2)
            /\ documents[i].csvHeaders # None =>
                   documents[i].csvHeaders = Some(splitCSVLine(nb[1]))

\* a file ingested as 'csv' on its name alone, with a header line and no data
C7_Witness ==
    /\ FromFile
    /\ documents[1].type = "csv"
    /\ Len(NonBlankCsvLines(documents[1].content)) = 1
    /\ documents[1].csvHeaders = None


-----------------------------------------------------------------------------
(* guessCSVConfig on tables of one or two columns. Each column has a header *)
(* of GuessHeaders and holds one cell value repeated, then a second one;    *)
(* GuessShapes says how often, reaching past the 30 sampled rows.           *)

Rep(c, n) == [k \in 1..n |-> c]
GuessHeaders == {<<"C", "o", "m", "m", "e", "n", "t", "s">>, <<"R", "e", "s", "p", "o", "n", "d", "e", "n", "t", "I", "D">>, <<"S", "c", "o", "r", "e">>, <<"N", "o">>}
GuessCells == {<<>>, <<"7">>, <<"a", "b", "c">>, Rep("x", 31)}
GuessShapes == {<<1, 0>>, <<3, 2>>, <<9, 1>>, <<30, 1>>}
GuessColumns == [header : GuessHeaders, first : GuessCells, rest : GuessCells]
GuessTable(cols, shape) ==
    [headers |-> [k \in 1..Len(cols) |-> cols[k].header],
     rows |-> [r \in 1..(shape[1] + shape[2]) |->
                  [k \in 1..Len(cols) |-> IF r <= shape[1] THEN cols[k].first ELSE cols[k].rest]],
     totalRows |-> shape[1] + shape[2]]
GuessTables ==
    {GuessTable(cols, shape) :
        cols \in [1..1 -> GuessColumns] \cup [1..2 -> GuessColumns], shape \in GuessShapes}

InitGuess ==
    /\ files = <<>>
    /\ documents = <<>>
    /\ chunks = <<>>
    /\ segmentationStrategy = "PARAGRAPH"
    /\ isHierarchical = FALSE
    /\ markdownSplitLevel = 1
    /\ csvConfig = initialCsvConfig
    /\ manualInput = <<>>
    /\ structure \in GuessTables
    /\ guess = None
    /\ random = <<>>
    /\ local = None
    /\ pc = "ready"

\* const config = guessCSVConfig(structure)
GuessCSVConfig ==
    /\ pc = "ready"
    /\ guess' = Some(guessCSVConfig(structure))
    /\ pc' = "done"
    /\ UNCHANGED <<random, local, files, documents, chunks, segmentationStrategy, isHierarchical,
                   markdownSplitLevel, csvConfig, manualInput, structure>>

NextGuess == GuessCSVConfig

SpecGuess == InitGuess /\ [][NextGuess]_vars

\* the non-empty values of column i (from 0) among the first up-to-30 rows,
\* as the set of their row numbers
SampledValues(i) ==
    {r \in 1..Len(structure.rows) :
        r <= 30 /\ i + 1 <= Len(structure.rows[r]) /\ structure.rows[r][i + 1] # <<>>}
RECURSIVE SumOf(_, _)
SumOf(f, S) == IF S = {} THEN 0 ELSE LET x == CHOOSE x \in S : TRUE IN f[x] + SumOf(f, S \ {x})
ValueLengths(i) == [r \in SampledValues(i) |-> Len(structure.rows[r][i + 1])]
NonNumericValues(i) == {r \in SampledValues(i) : isNaNNumber(structure.rows[r][i + 1])}

HeaderOf(i) == toLowerCase(structure.headers[i + 1])
HasTextKeyword(i) == \E kw \in TextKeywords : includes(HeaderOf(i), kw)
SuggestsId(i) == (\E kw \in IdKeywords : includes(HeaderOf(i), kw)) \/ HeaderOf(i) = strNo
\* nonNumericRatio > n/10, < n/10 and avgLen > n, < n; false of a column
\* without sampled values, whose ratio and average are undefined
RatioAbove(i, n) ==
    SampledValues(i) # {} /\ 10 * Cardinality(NonNumericValues(i)) > n * Cardinality(SampledValues(i))
RatioBelow(i, n) ==
    SampledValues(i) # {} /\ 10 * Cardinality(NonNumericValues(i)) < n * Cardinality(SampledValues(i))
AvgLenAbove(i, n) ==
    SampledValues(i) # {}
    /\ SumOf(ValueLengths(i), SampledValues(i)) > n * Cardinality(SampledValues(i))
AvgLenBelow(i, n) ==
    SampledValues(i) # {}
    /\ SumOf(ValueLengths(i), SampledValues(i)) < n * Cardinality(SampledValues(i))

TargetRule(i) == HasTextKeyword(i) \/ (RatioAbove(i, 6) /\ AvgLenAbove(i, 30))
ContextRule(i) == SuggestsId(i) \/ (AvgLenBelow(i, 20) /\ RatioAbove(i, 1)) \/ RatioBelow(i, 1)

Columns == {k - 1 : k \in 1..Len(structure.headers)}
LastColumn == Len(structure.headers) - 1
InSeq(x, seq) == \E k \in 1..Len(seq) : seq[k] = x
Guessed == pc = "done" /\ guess # None

\* C8 as stated: a column is in the target set if its header has a text
\* keyword or (nonNumericRatio > 0.6 and avgLen > 30); otherwise it is in the
\* context set iff its header suggests an identifier, or (avgLen < 20 and
\* nonNumericRatio > 0.1), or nonNumericRatio < 0.1. (A column the rule does
\* not make a target is in the target set only as the last-column fallback.)
C8_ColumnRoles ==
    Guessed =>
        \A i \in Columns :
            /\ TargetRule(i) => InSeq(i, guess[1].analyzeCols)
            /\ ~TargetRule(i) => (InSeq(i, guess[1].contextCols) <=> ContextRule(i))
            /\ ~TargetRule(i) /\ InSeq(i, guess[1].analyzeCols) =>
                   i = LastColumn /\ guess[1].analyzeCols = <<i>>

\* C8 amended: the rules classify only a column with at least one non-empty
\* value among the first up-to-30 rows: it is a target if its header has a
\* text keyword or (nonNumericRatio > 0.6 and avgLen > 30), else context if
\* its header suggests an identifier, or (avgLen < 20 and nonNumericRatio >
\* 0.1), or nonNumericRatio < 0.1, else in neither set; a column with no such
\* value is in neither set whatever its header. Only the last-column fallback
\* puts another column in the target set.
C8_ColumnRolesOfSampledColumns ==
    Guessed =>
        \A i \in Columns :
            LET sampled == SampledValues(i) # {}
                target == sampled /\ TargetRule(i)
                context == sampled /\ ~TargetRule(i) /\ ContextRule(i)
            IN  /\ target => InSeq(i, guess[1].analyzeCols)
                /\ InSeq(i, guess[1].contextCols) <=> context
                /\ ~target /\ InSeq(i, guess[1].analyzeCols) =>
                       i = LastColumn /\ guess[1].analyzeCols = <<i>>

\* a 'Comments' column without a sampled value that is no target, next to a
\* column that the rules put in the context set
C8_Witness ==
    /\ Guessed
    /\ Len(structure.headers) = 2
    /\ HasTextKeyword(0) /\ SampledValues(0) = {} /\ Len(structure.rows) > 30
    /\ ~InSeq(0, guess[1].analyzeCols)
    /\ InSeq(1, guess[1].contextCols)

-----------------------------------------------------------------------------
(* Tabular documents: a header line 'h,k' and one or two data lines, under  *)
(* every column config the config dialog can save for these headers         *)

CsvHeaderLine == <<"h", ",", "k">>
CsvDataLines == {<<"x", ",", "y">>, <<"x", ",">>, <<",", "y">>, <<",">>, <<"x">>}
CsvSegContents ==
    {CsvHeaderLine \o <<"\n">> \o t : t \in LineTexts(CsvDataLines, 2)}
CsvSegFileLists == {<<File(strDocCsv, strTextCsv, t)>> : t \in CsvSegContents}

\* lists of header names; 'z' is a column of another table, absent from this one
ColumnLists == {<<>>, <<<<"h">>>>, <<<<"k">>>>, <<<<"h">>, <<"k">>>>, <<<<"k">>, <<"h">>>>,
                <<<<"z">>>>, <<<<"z">>, <<"k">>>>}
\* handleToggle keeps a column out of the context list while it is a target,
\* and the dialog offers the sentiment toggle for context columns
CsvConfigs ==
    {c \in [targetColumns : ColumnLists, contextColumns : ColumnLists,
            sentimentContextColumns : ColumnLists, strategy : {"COMBINE", "DISTINCT"}] :
        /\ \A i \in 1..Len(c.targetColumns) : ~InSeq(c.targetColumns[i], c.contextColumns)
        /\ \A i \in 1..Len(c.sentimentContextColumns) :
               InSeq(c.sentimentContextColumns[i], c.contextColumns)
        /\ Len(c.sentimentContextColumns) <= 1}

HandleCsvConfigSave(newConfig) ==
    LET hierarchical == newConfig.strategy = "DISTINCT"
        strat == IF hierarchical THEN "ROW_DISTINCT_COLUMNS" ELSE "ROW_COMBINED"
    IN  /\ pc = "ready"
        /\ documents # <<>>
        /\ chunks' = performSegmentation(documents, strat, newConfig, hierarchical,
                                         markdownSplitLevel)
        /\ csvConfig' = newConfig
        /\ segmentationStrategy' = strat
        /\ isHierarchical' = hierarchical
        /\ pc' = "saved"
        /\ UNCHANGED <<random, local, files, documents, markdownSplitLevel, manualInput, structure, guess>>

NextCsvSeg ==
    \/ \E fl \in CsvSegFileLists : HandleFileUpload(fl)
    \/ \E newConfig \in CsvConfigs : HandleCsvConfigSave(newConfig)
    \/ \E strat \in Granularity, hierarchical \in BOOLEAN :
           UpdateSegmentation(strat, hierarchical, markdownSplitLevel)

SpecCsvSeg == InitApp /\ [][NextCsvSeg]_vars

\* the chunks of one tabular document have been computed, not as whole files
RowsSegmented ==
    /\ pc \in {"saved", "done"}
    /\ Len(documents) = 1 /\ documents[1].type = "csv"
    /\ segmentationStrategy # "FILE"

TableOf(doc) == parseCSVStructure(doc.content)
TargetValue(doc, r, k) ==
    cellValue(TableOf(doc).headers, TableOf(doc).rows[r], csvConfig.targetColumns[k])
TargetCells(doc) ==
    {rk \in (1..Len(TableOf(doc).rows)) \X (1..Len(csvConfig.targetColumns)) :
        TargetValue(doc, rk[1], rk[2]) # <<>>}

\* one chunk for each row with a target value, all named after the document
MergedPerRow(doc) ==
    /\ Len(chunks) = Cardinality({rk[1] : rk \in TargetCells(doc)})
    /\ \A i \in 1..Len(chunks) : chunks[i].sourceName = doc.name
\* one chunk for each target value, each named after the document and a target column
OnePerTargetColumn(doc) ==
    /\ Len(chunks) = Cardinality(TargetCells(doc))
    /\ \A i \in 1..Len(chunks) :
           \E k \in 1..Len(csvConfig.targetColumns) :
               chunks[i].sourceName = doc.name \o strArrow \o csvConfig.targetColumns[k]

\* C10 as stated: the rows of a tabular document are merged into one chunk
\* each exactly when the column config's strategy is COMBINE, and give one
\* chunk per target column exactly when it is DISTINCT.
C10_StrategyDecides ==
    RowsSegmented =>
        IF csvConfig.strategy = "COMBINE" THEN MergedPerRow(documents[1])
        ELSE OnePerTargetColumn(documents[1])

\* C10 amended: the isHierarchical argument decides, for every granularity
\* but FILE: rows are merged into one chunk each when it is false and give
\* one chunk per target column when it is true, whatever the config's
\* strategy; handleCsvConfigSave passes isHierarchical = (strategy is
\* DISTINCT), so the chunks it stores follow the saved strategy.
C10_HierarchyFlagDecides ==
    RowsSegmented =>
        /\ IF isHierarchical THEN OnePerTargetColumn(documents[1])
           ELSE MergedPerRow(documents[1])
        /\ pc = "saved" => (isHierarchical <=> csvConfig.strategy = "DISTINCT")

\* a COMBINE config, then a segmentation with isHierarchical set: a row of
\* two target values gives two chunks
C10_Witness ==
    /\ RowsSegmented /\ pc = "done"
    /\ csvConfig.strategy = "COMBINE" /\ isHierarchical
    /\ Len(csvConfig.targetColumns) = 2
    /\ Len(TableOf(documents[1]).rows) = 1
    /\ Len(chunks) = 2


\* the value of context column k in row r
ContextValue(doc, r, k) ==
    cellValue(TableOf(doc).headers, TableOf(doc).rows[r], csvConfig.contextColumns[k])
HasContext(doc, r) == \E k \in 1..Len(csvConfig.contextColumns) : ContextValue(doc, r, k) # <<>>
EndsWith(t, tail) == Len(t) >= Len(tail) /\ SubSeq(t, Len(t) - Len(tail) + 1, Len(t)) = tail
StartsWith(t, head) == Len(t) >= Len(head) /\ SubSeq(t, 1, Len(head)) = head
\* text is body, preceded by a '[Meta: ...]' line exactly when row r has a context value
WithMetaLine(doc, r, text, body) ==
    IF HasContext(doc, r)
    THEN /\ EndsWith(text, <<"]", "\n">> \o body)
         /\ StartsWith(text, <<"[", "M", "e", "t", "a", ":", " ">>)
         /\ Len(text) > Len(body) + 9
    ELSE text = body

\* the rows with a non-empty target value, in row order
RowsWithTarget(doc) ==
    SelectSeq([r \in 1..Len(TableOf(doc).rows) |-> r],
              LAMBDA r : \E k \in 1..Len(csvConfig.targetColumns) : TargetValue(doc, r, k) # <<>>)
\* the non-empty target values of row r, line by line
RECURSIVE TargetLines(_, _, _)
TargetLines(doc, r, k) ==
    IF k > Len(csvConfig.targetColumns) THEN <<>>
    ELSE LET v == TargetValue(doc, r, k)
             line == IF Len(csvConfig.targetColumns) > 1
                     THEN csvConfig.targetColumns[k] \o <<":", " ">> \o v ELSE v
             rest == TargetLines(doc, r, k + 1)
         IN  IF v = <<>> THEN rest
             ELSE IF rest = <<>> THEN line ELSE line \o <<"\n">> \o rest

\* C11: in row-combined splitting every data row with a non-empty target value
\* gives exactly one chunk, in row order: its non-empty target values joined
\* by line breaks, each prefixed '<header>: ' when more than one target column
\* is configured, after a '[Meta: ...]' line when a context value is
\* non-empty; a row without target text gives no chunk.
C11_RowCombined ==
    RowsSegmented /\ ~isHierarchical =>
        LET doc == documents[1]
            rs == RowsWithTarget(doc)
        IN  /\ Len(chunks) = Len(rs)
            /\ \A i \in 1..Len(rs) :
                   WithMetaLine(doc, rs[i], chunks[i].text, TargetLines(doc, rs[i], 1))

\* two rows, the first without target text: one chunk, the value of the one
\* target column under a Meta line
C11_Witness ==
    /\ RowsSegmented /\ ~isHierarchical
    /\ Len(TableOf(documents[1]).rows) = 2
    /\ RowsWithTarget(documents[1]) = <<2>>
    /\ Len(chunks) = 1
    /\ chunks[1].text = <<"[", "M", "e", "t", "a", ":", " ", "k", ":", " ", "y", "]", "\n", "x">>

\* the (row, target column) pairs whose column is a header and whose value is
\* non-empty, by row and then in the order of the configured columns
TargetPairs(doc) ==
    LET K == Len(csvConfig.targetColumns)
        R == Len(TableOf(doc).rows)
    IN  SelectSeq([n \in 1..(R * K) |-> <<((n - 1) \div K) + 1, ((n - 1) % K) + 1>>],
                  LAMBDA rk : /\ InSeq(csvConfig.targetColumns[rk[2]], TableOf(doc).headers)
                              /\ TargetValue(doc, rk[1], rk[2]) # <<>>)

\* C12: in distinct-column splitting every data row gives one chunk for each
\* configured target column that is in the header and has a non-empty value in
\* the row (a missing field is empty), and no other chunk; the chunk is
\* labelled '<document> > <column>' and its text is the optional '[Meta: ...]'
\* line, then '[Column: <name>]', then the value.
C12_RowDistinct ==
    RowsSegmented /\ isHierarchical =>
        LET doc == documents[1]
            ps == TargetPairs(doc)
        IN  /\ Len(chunks) = Len(ps)
            /\ \A i \in 1..Len(ps) :
                   LET col == csvConfig.targetColumns[ps[i][2]]
                   IN  /\ chunks[i].sourceName = doc.name \o <<" ", ">", " ">> \o col
                       /\ WithMetaLine(doc, ps[i][1], chunks[i].text,
                              <<"[", "C", "o", "l", "u", "m", "n", ":", " ">> \o col
                                  \o <<"]", "\n">> \o TargetValue(doc, ps[i][1], ps[i][2]))

\* a row shorter than the header and a target column the header lacks: the
\* row gives no chunk, the next row gives one for column k only
C12_Witness ==
    /\ RowsSegmented /\ isHierarchical
    /\ csvConfig.targetColumns = <<<<"z">>, <<"k">>>>
    /\ Len(TableOf(documents[1]).rows) = 2
    /\ Len(TableOf(documents[1]).rows[1]) = 1
    /\ TargetPairs(documents[1]) = <<<<2, 2>>>>
    /\ Len(chunks) = 1


-----------------------------------------------------------------------------
(* Granularities TURN and PHRASE on flat text documents (Spec)              *)

FlatTextSegmented(strat) ==
    /\ pc = "done" /\ segmentationStrategy = strat /\ ~isHierarchical
    /\ Len(documents) = 1 /\ documents[1].type # "csv"

\* a line that starts with a capitalized token followed by a colon, as a speaker label does
IsSpeakerLine(l) ==
    /\ l # <<>>
    /\ l[1] \in Upper \cup Digit
    /\ \E j \in 2..Len(l) :
           l[j] = ":" /\ \A m \in 2..(j - 1) : l[m] \in WordChar \cup {" ", "\t"}
NoSpeakerLine(t) == \A k \in 1..Len(LinesOf(t)) : ~IsSpeakerLine(LinesOf(t)[k])

\* C13: with granularity TURN on a flat non-tabular document without a line
\* that starts with a capitalized token and a colon, the chunk texts are those
\* of PARAGRAPH splitting of the same document.
C13_TurnFallsBackToParagraphs ==
    FlatTextSegmented("TURN") /\ NoSpeakerLine(documents[1].content) =>
        TextsOf(chunks) = TextsOf(performSegmentation(documents, "PARAGRAPH", csvConfig,
                                                      FALSE, markdownSplitLevel))

\* the pieces of t between the separators: a comma or semicolon with the
\* whitespace that follows it (at least one character of it)
RECURSIVE PhrasePieces(_, _, _)
PhrasePieces(t, from, q) ==
    IF q > Len(t) THEN <<SubSeq(t, from, Len(t))>>
    ELSE IF t[q] \in {",", ";"} /\ q < Len(t) /\ t[q + 1] \in WhiteSpace
    THEN LET next == SkipWhile(t, q + 1, WhiteSpace)
         IN  <<SubSeq(t, from, q - 1)>> \o PhrasePieces(t, next, next)
    ELSE PhrasePieces(t, from, q + 1)

\* C20: with granularity PHRASE on a flat non-tabular document the chunks are
\* the non-empty pieces of the content between every comma or semicolon that
\* is followed by whitespace.
C20_PhraseSplit ==
    FlatTextSegmented("PHRASE") /\ ~IsBlank(documents[1].content) =>
        TextsOf(chunks) =
            SelectSeq([k \in 1..Len(PhrasePieces(documents[1].content, 1, 1)) |->
                          Trimmed(PhrasePieces(documents[1].content, 1, 1)[k])],
                      LAMBDA piece : piece # <<>>)


-----------------------------------------------------------------------------
(* Two documents uploaded together: paragraphs and sentences, a Markdown    *)
(* document of two sections, and a table of two rows                        *)

OrderTexts == {<<"a", "\n", "\n", "b", ".", " ", "c">>,
               <<"i", "\n", "#", " ", "T", "\n", "x", "\n", "\n", "y", "\n",
                 "#", " ", "U", "\n", "z">>}
OrderTable == <<"h", ",", "k", "\n", "x", ",", "y", "\n", ",", "y">>
OrderFiles == {File(strDocTxt, <<>>, t) : t \in OrderTexts}
                  \cup {File(strDocCsv, strTextCsv, OrderTable)}
OrderFileLists == [1..2 -> OrderFiles]
OrderConfigs ==
    {[targetColumns |-> <<<<"k">>, <<"h">>>>, contextColumns |-> <<>>,
      sentimentContextColumns |-> <<>>, strategy |-> "DISTINCT"],
     [targetColumns |-> <<<<"k">>>>, contextColumns |-> <<<<"h">>>>,
      sentimentContextColumns |-> <<>>, strategy |-> "COMBINE"]}

NextOrder ==
    \/ \E fl \in OrderFileLists : HandleFileUpload(fl)
    \/ \E newConfig \in OrderConfigs : HandleCsvConfigSave(newConfig)
    \/ \E strat \in Granularity : UpdateSegmentation(strat, FALSE, markdownSplitLevel)
    \/ \E strat \in Granularity, level \in Levels : UpdateSegmentation(strat, TRUE, level)

SpecOrder == InitApp /\ [][NextOrder]_vars

Segmented == pc \in {"saved", "done"}
\* the position of a chunk's document in the document list
DocIndex(c) == CHOOSE d \in 1..Len(documents) : documents[d].id = c.sourceId
ChunksOfDoc(d) == SelectSeq(chunks, LAMBDA c : c.sourceId = documents[d].id)

\* the texts occur in t one after the other, from index from on
RECURSIVE OccurInOrder(_, _, _)
OccurInOrder(texts, t, from) ==
    IF texts = <<>> THEN TRUE
    ELSE LET n == Len(texts[1])
             at == {q \in from..(Len(t) - n + 1) : SubSeq(t, q, q + n - 1) = texts[1]}
         IN  /\ at # {}
             /\ OccurInOrder(Tail(texts), t, (CHOOSE q \in at : \A r \in at : q <= r) + n)

\* the rank of a section label among the headings of a document at level L:
\* 0 for the text before the first heading, k for the k-th heading line
HeadingLines(t, L) ==
    SelectSeq(LinesOf(t), LAMBDA l : Len(l) > L + 1 /\ (\A j \in 1..L : l[j] = "#") /\ l[L + 1] = " ")
LabelRank(doc, L, label) ==
    IF label = doc.name \o <<" ", ">", " ">> \o strIntro THEN 0
    ELSE CHOOSE k \in 1..Len(HeadingLines(doc.content, L)) :
             label = doc.name \o <<" ", ">", " ">>
                         \o Trimmed(SubSeq(HeadingLines(doc.content, L)[k], L + 1,
                                           Len(HeadingLines(doc.content, L)[k])))

\* the document with only its k-th data row
WithOnlyRow(doc, k) ==
    [doc EXCEPT !.content = NonBlankCsvLines(doc.content)[1] \o <<"\n">>
                                \o NonBlankCsvLines(doc.content)[k + 1]]
CoreOf(cs) == [i \in 1..Len(cs) |-> [text |-> cs[i].text, sourceName |-> cs[i].sourceName]]
RowByRow(doc) ==
    Flatten([k \in 1..(Len(NonBlankCsvLines(doc.content)) - 1) |->
                CoreOf(performSegmentation(<<WithOnlyRow(doc, k)>>, segmentationStrategy,
                                           csvConfig, isHierarchical, markdownSplitLevel))])

\* C14: the chunks of a document come before the chunks of every later
\* document; the chunks of a text document occur in its content in the order
\* returned, section by section in heading order when the split is
\* hierarchical; the chunks of a table are those of its rows, row after row.
C14_ChunkOrder ==
    Segmented /\ Len(documents) = 2 =>
        /\ \A i, j \in 1..Len(chunks) : i < j => DocIndex(chunks[i]) <= DocIndex(chunks[j])
        /\ \A d \in 1..2 :
               LET doc == documents[d]
                   cs == ChunksOfDoc(d)
                   L == IF segmentationStrategy = "SUBSECTION" /\ markdownSplitLevel < 6
                        THEN markdownSplitLevel + 1 ELSE markdownSplitLevel
               IN  IF doc.type = "csv" /\ segmentationStrategy # "FILE"
                   THEN CoreOf(cs) = RowByRow(doc)
                   ELSE /\ OccurInOrder(TextsOf(cs), doc.content, 1)
                        /\ isHierarchical /\ segmentationStrategy # "FILE" =>
                               \A i, j \in 1..Len(cs) :
                                   i < j => LabelRank(doc, L, cs[i].sourceName)
                                                <= LabelRank(doc, L, cs[j].sourceName)

\* the Markdown document split at its level-1 headings before the table split
\* into a chunk per column: the text before the first heading, two sections, two rows
C14_Witness ==
    /\ pc = "done" /\ Len(documents) = 2
    /\ isHierarchical /\ markdownSplitLevel = 1 /\ segmentationStrategy = "PARAGRAPH"
    /\ documents[1].type = "markdown" /\ documents[2].type = "csv"
    /\ Len(ChunksOfDoc(1)) = 4
    /\ Len(ChunksOfDoc(2)) = 3


-----------------------------------------------------------------------------
(* Chunk ids: segmentation under every short stream of random values, then  *)
(* an edit of one chunk saved by saveChunkEdit                              *)

\* what Math.random returns in the first calls of generateId: nothing fixed,
\* one value, or two values that may be equal
RandomStreams == UNION {[1..k -> 1..2] : k \in 0..2}
IdContents == {<<"a">>, <<"a", "\n", "\n", "b">>, <<"a", ".", " ", "b", ".", " ", "c">>,
               <<"#", " ", "T", "\n", "x", "\n", "#", " ", "U", "\n", "y">>}
IdFileLists == {<<File(strDocTxt, <<>>, t)>> : t \in IdContents}
strEdited == <<"e", "d", "i", "t", "e", "d">>

InitIds ==
    /\ files = <<>>
    /\ documents = <<>>
    /\ chunks = <<>>
    /\ segmentationStrategy = "PARAGRAPH"
    /\ isHierarchical = FALSE
    /\ markdownSplitLevel = 1
    /\ csvConfig = initialCsvConfig
    /\ manualInput = <<>>
    /\ structure = emptyStructure
    /\ guess = None
    /\ random \in RandomStreams
    /\ local = None
    /\ pc = "ready"

\* saveChunkEdit, the chunk under edit being chunk k with a new text
SaveChunkEdit(k) ==
    LET editingChunk == [chunks[k] EXCEPT !.text = strEdited]
    IN  /\ pc = "done"
        /\ chunks' = [i \in 1..Len(chunks) |->
                         IF chunks[i].id = editingChunk.id THEN editingChunk ELSE chunks[i]]
        /\ pc' = "edited"
        /\ UNCHANGED <<random, local, files, documents, segmentationStrategy, isHierarchical,
                       markdownSplitLevel, csvConfig, manualInput, structure, guess>>

NextIds ==
    \/ \E fl \in IdFileLists : HandleFileUpload(fl)
    \/ \E strat \in Granularity : UpdateSegmentation(strat, FALSE, markdownSplitLevel)
    \/ \E strat \in Granularity, level \in Levels : UpdateSegmentation(strat, TRUE, level)
    \/ \E k \in 1..Len(chunks) : SaveChunkEdit(k)

SpecIds == InitIds /\ [][NextIds]_vars

\* C15: the chunks returned by one call of performSegmentation have pairwise
\* distinct ids whatever the random source returns, so an edit saved by
\* chunk id changes exactly one chunk.
C15_DistinctIds ==
    /\ pc = "done" => \A i, j \in 1..Len(chunks) : i # j => chunks[i].id # chunks[j].id
    /\ pc = "edited" => Cardinality({i \in 1..Len(chunks) : chunks[i].text = strEdited}) = 1


-----------------------------------------------------------------------------
(* The granularity tag of the chunks of a tabular document (SpecCsvSeg)     *)

\* C16: the type of every chunk names the strategy that produced it: a chunk
\* that merges the target columns of a row is tagged ROW_COMBINED, a chunk of
\* one column is tagged ROW_DISTINCT_COLUMNS.
C16_TypeNamesStrategy ==
    RowsSegmented /\ segmentationStrategy \in {"ROW_COMBINED", "ROW_DISTINCT_COLUMNS"} =>
        \A i \in 1..Len(chunks) :
            /\ chunks[i].sourceName = documents[1].name => chunks[i].type = "ROW_COMBINED"
            /\ chunks[i].sourceName # documents[1].name =>
                   chunks[i].type = "ROW_DISTINCT_COLUMNS"


-----------------------------------------------------------------------------
(* generateNgrams (utils/textProcessing.ts)                                 *)

STOP_WORDS ==
    {<<"t", "h", "e">>, <<"a", "n", "d">>, <<"o", "r">>, <<"b", "u", "t">>,
     <<"i", "n">>, <<"o", "n">>, <<"a", "t">>, <<"t", "o">>, <<"a">>, <<"a", "n">>,
     <<"i", "s">>, <<"a", "r", "e">>, <<"w", "a", "s">>, <<"w", "e", "r", "e">>,
     <<"o", "f">>, <<"f", "o", "r">>, <<"i", "t">>, <<"t", "h", "i", "s">>,
     <<"t", "h", "a", "t">>, <<"w", "i", "t", "h">>, <<"a", "s">>, <<"b", "y">>,
     <<"f", "r", "o", "m">>, <<"b", "e">>, <<"h", "a", "v", "e">>, <<"h", "a", "s">>,
     <<"h", "a", "d">>, <<"n", "o", "t">>, <<"w", "i", "l", "l">>, <<"c", "a", "n">>,
     <<"w", "o", "u", "l", "d">>, <<"s", "h", "o", "u", "l", "d">>,
     <<"c", "o", "u", "l", "d">>, <<"i">>, <<"y", "o", "u">>, <<"h", "e">>,
     <<"s", "h", "e">>, <<"w", "e">>, <<"t", "h", "e", "y">>}

\* the words of s: its maximal runs of characters other than whitespace
\* (.split(/\s+/).filter(t => t.length > 0))
RECURSIVE wordsFrom(_, _)
wordsFrom(s, q) ==
    LET a == SkipWhile(s, q, WhiteSpace)
        b == SkipUntil(s, a, WhiteSpace)
    IN  IF a > Len(s) THEN <<>> ELSE <<SubSeq(s, a, b - 1)>> \o wordsFrom(s, b)

\* chunk.text.toLowerCase().replace(/[^\w\s]/g, '').split(/\s+/).filter(...)
tokenize(text) ==
    wordsFrom(SelectSeq(toLowerCase(text), LAMBDA c : c \in WordChar \cup WhiteSpace), 1)

\* 1, 2, ..., m
upTo(m) == IF m < 1 THEN <<>> ELSE [i \in 1..m |-> i]

\* the n-grams one chunk adds, in the order of the for loop: the windows of n
\* tokens without a stop word, each joined by single spaces
ngramsOf(tokens, n) ==
    LET window(i) == SubSeq(tokens, i, i + n - 1)
        kept == SelectSeq(upTo(Len(tokens) - n + 1),
                          LAMBDA i : \A k \in 1..n : window(i)[k] \notin STOP_WORDS)
    IN  [k \in 1..Len(kept) |-> join(window(kept[k]), <<" ">>)]

\* counts.set(gram, (counts.get(gram) || 0) + 1) for the first k of grams,
\* starting from the entries counts holds: a Map keeps its keys in the order
\* of their first insertion
RECURSIVE countInto(_, _, _)
countInto(counts, grams, k) ==
    IF k = 0 THEN counts
    ELSE LET entries == countInto(counts, grams, k - 1)
             at == {e \in 1..Len(entries) : entries[e].text = grams[k]}
         IN  IF at = {} THEN Append(entries, [text |-> grams[k], value |-> 1])
             ELSE [entries EXCEPT ![CHOOSE e \in at : TRUE].value = @ + 1]

\* chunks.forEach(...) over the first c chunks: the counts of their n-grams
RECURSIVE countChunks(_, _, _)
countChunks(cs, c, n) ==
    IF c = 0 THEN <<>>
    ELSE LET counts == countChunks(cs, c - 1, n)
             grams == ngramsOf(tokenize(cs[c].text), n)
         IN  IF grams = <<>> \/ Len(counts) < 0 THEN counts
             ELSE countInto(counts, grams, Len(grams))

\* .slice(0, 50)
TopNgrams == 50

\* .sort((a, b) => b.value - a.value): a stable sort by descending value
sortByValue(entries) ==
    LET values == {entries[k].value : k \in 1..Len(entries)}
        max == IF values = {} THEN 0 ELSE CHOOSE v \in values : \A w \in values : w <= v
    IN  Flatten([k \in 1..max |-> SelectSeq(entries, LAMBDA e : e.value = max + 1 - k)])

\* format keeping the map's own order (a mutant)
format_unsorted(entries, type) ==
    LET tagged == [k \in 1..Len(entries) |->
                      [text |-> entries[k].text, value |-> entries[k].value, type |-> type]]
    IN  SubSeq(tagged, 1, IF Len(tagged) < TopNgrams THEN Len(tagged) ELSE TopNgrams)

format(entries, type) ==
    LET tagged == [k \in 1..Len(entries) |->
                      [text |-> entries[k].text, value |-> entries[k].value, type |-> type]]
        sorted == sortByValue(tagged)
    IN  SubSeq(sorted, 1, IF Len(sorted) < TopNgrams THEN Len(sorted) ELSE TopNgrams)

generateNgrams(cs) ==
    [bigrams |-> format(countChunks(cs, Len(cs), 2), "bigram"),
     trigrams |-> format(countChunks(cs, Len(cs), 3), "trigram")]

-----------------------------------------------------------------------------
(* generateNgrams on one chunk of at most MaxNgramLen characters, on two    *)
(* short chunks, and on examples: the sentence of the specification, counts *)
(* that reverse the first-seen order, more than 50 different n-grams        *)

MaxNgramLen == 5
NgramAlphabet == {"a", "b", "B", " ", "."}
ShortNgramTexts == Strings({"a", "b", " "}, 3)
ExampleCats == <<"t", "h", "e", " ", "c", "a", "t", " ", "s", "a", "t", ".", " ", "t", "h", "e", " ", "c", "a", "t", " ", "r", "a", "n", ".">>
ExampleCounts == <<<<"c", " ", "d">>, <<"D", " ", "e", " ", "d", " ", "e">>>>
ExampleManyNgrams ==
    <<
      <<"b", " ", "b", " ", "c", " ", "b", " ", "d", " ", "b", " ", "e", " ", "b", " ",
      "f", " ", "b", " ", "g", " ", "b", " ", "h", " ", "b", " ", "j", " ", "c", " ", "c",
      " ", "d", " ", "c", " ", "e", " ", "c", " ", "f", " ", "c", " ", "g", " ", "c", " ",
      "h", " ", "c", " ", "j", " ", "d", " ", "d", " ", "e", " ", "d", " ", "f">>,
      <<"f", " ", "d", " ", "g", " ", "d", " ", "h", " ", "d", " ", "j", " ", "e", " ",
      "e", " ", "f", " ", "e", " ", "g", " ", "e", " ", "h", " ", "e", " ", "j", " ", "f",
      " ", "f", " ", "g", " ", "f", " ", "h", " ", "f", " ", "j", " ", "g", " ", "g", " ",
      "h", " ", "g", " ", "j", " ", "h", " ", "h", " ", "j", " ", "j", " ", "b", " ", "t",
      "h", "e", " ", "j", " ", "h">>
    >>
TextChunk(text, n) ==
    [id |-> -n, text |-> text, type |-> "PARAGRAPH", sourceId |-> "d1",
     sourceName |-> strDocTxt, tags |-> <<>>]
NgramChunkLists ==
    {<<TextChunk(t, 1)>> : t \in Strings(NgramAlphabet, MaxNgramLen)
                                    \cup {ExampleCats}}
        \cup {<<TextChunk(t, 1), TextChunk(u, 2)>> : t, u \in ShortNgramTexts}
        \cup {<<TextChunk(e[1], 1), TextChunk(e[2], 2)>> : e \in {ExampleCounts, ExampleManyNgrams}}

InitNgrams ==
    /\ files = <<>>
    /\ documents = <<>>
    /\ chunks \in NgramChunkLists
    /\ segmentationStrategy = "PARAGRAPH"
    /\ isHierarchical = FALSE
    /\ markdownSplitLevel = 1
    /\ csvConfig = initialCsvConfig
    /\ manualInput = <<>>
    /\ structure = emptyStructure
    /\ guess = None
    /\ random = <<>>
    /\ local = None
    /\ pc = "ready"

\* const ngrams = generateNgrams(chunks)
GenerateNgrams ==
    /\ pc = "ready"
    /\ local' = Some(generateNgrams(chunks))
    /\ pc' = "done"
    /\ UNCHANGED <<random, files, documents, chunks, segmentationStrategy, isHierarchical,
                   markdownSplitLevel, csvConfig, manualInput, structure, guess>>

NextNgrams == GenerateNgrams

SpecNgrams == InitNgrams /\ [][NextNgrams]_vars

\* the n-grams that occur in the chunks, one entry per occurrence: chunk after
\* chunk, and within a chunk by position, every window of n adjacent tokens
\* none of which is a stop word
Occurrences(n) ==
    LET inChunk(c) ==
            LET toks == tokenize(chunks[c].text)
                free(i) == \A k \in 0..(n - 1) : toks[i + k] \notin STOP_WORDS
                at == SelectSeq(upTo(Len(toks) - n + 1), free)
            IN  [k \in 1..Len(at) |-> join(SubSeq(toks, at[k], at[k] + n - 1), <<" ">>)]
    IN  Flatten([c \in 1..Len(chunks) |-> inChunk(c)])
CountOf(g, occ) == Cardinality({k \in 1..Len(occ) : occ[k] = g})
FirstSeen(g, occ) == CHOOSE k \in 1..Len(occ) : occ[k] = g /\ \A m \in 1..(k - 1) : occ[m] # g
\* gram g ranks before gram h: a greater count, or the same count and seen first
RanksBefore(g, h, occ) ==
    \/ CountOf(g, occ) > CountOf(h, occ)
    \/ CountOf(g, occ) = CountOf(h, occ) /\ FirstSeen(g, occ) < FirstSeen(h, occ)

TopOfCounts(res, n, type) ==
    LET occ == Occurrences(n)
        grams == {occ[k] : k \in 1..Len(occ)}
        listed == {res[k].text : k \in 1..Len(res)}
    IN  /\ Len(res) = IF Cardinality(grams) < 50 THEN Cardinality(grams) ELSE 50
        /\ listed \subseteq grams
        /\ \A k \in 1..Len(res) :
               /\ res[k].value = CountOf(res[k].text, occ)
               /\ res[k].type = type
               /\ \A w \in 1..Len(wordsFrom(res[k].text, 1)) :
                      wordsFrom(res[k].text, 1)[w] \notin STOP_WORDS
        /\ \A k \in 1..(Len(res) - 1) : RanksBefore(res[k].text, res[k + 1].text, occ)
        /\ \A g \in grams \ listed : RanksBefore(res[Len(res)].text, g, occ)

\* C17: generateNgrams counts, for bigrams and trigrams independently, every
\* window of 2 (3) adjacent tokens of a chunk without a stop word, over all
\* chunks, and returns the at most 50 n-grams of greatest count in
\* non-increasing count order, equal counts in first-seen order; no returned
\* n-gram contains a stop word.
C17_Ngrams ==
    pc = "done" /\ local # None =>
        /\ TopOfCounts(local[1].bigrams, 2, "bigram")
        /\ TopOfCounts(local[1].trigrams, 3, "trigram")

\* more than 50 different bigrams, of which a bigram seen late and counted
\* twice is returned first
C17_Witness ==
    /\ pc = "done" /\ local # None
    /\ Cardinality({Occurrences(2)[k] : k \in 1..Len(Occurrences(2))}) > 50
    /\ Len(local[1].bigrams) = 50
    /\ local[1].bigrams[1].value = 2
    /\ local[1].bigrams[2].value = 1


-----------------------------------------------------------------------------
(* generateKWIC (utils/textProcessing.ts), one step per evaluation of the   *)
(* loop condition and one per execution of the loop body                    *)

\* String.prototype.indexOf(searchString, position): the position is clamped
\* to 0..length; the empty string is found at the clamped position; otherwise
\* the first index from there at which searchString starts, or -1
stringIndexOf(s, searchString, position) ==
    LET start == IF position < 0 THEN 0 ELSE IF position > Len(s) THEN Len(s) ELSE position
        hits == {q \in start..(Len(s) - Len(searchString)) :
                    SubSeq(s, q + 1, q + Len(searchString)) = searchString}
    IN  IF searchString = <<>> THEN start
        ELSE IF hits = {} THEN -1
        ELSE CHOOSE q \in hits : \A h \in hits : q <= h

\* String.prototype.substring(start, end) for 0 <= start <= end <= length
substring(s, start, end) == SubSeq(s, start + 1, end)

strEllipsis == <<".", ".", ".">>

\* the record pushed for a match at startIndex, the keyword as the lower-cased
\* text has it (a mutant)
kwicRecord_lowerCased(chunk, keyword, windowChars, startIndex) ==
    LET text == chunk.text
        leftStart == IF startIndex - windowChars > 0 THEN startIndex - windowChars ELSE 0
        ending == startIndex + Len(keyword) + windowChars
        rightEnd == IF ending < Len(text) THEN ending ELSE Len(text)
    IN  [left |-> (IF leftStart > 0 THEN strEllipsis ELSE <<>>)
                      \o substring(text, leftStart, startIndex),
         keyword |-> substring(toLowerCase(text), startIndex, startIndex + Len(keyword)),
         right |-> substring(text, startIndex + Len(keyword), rightEnd)
                      \o (IF rightEnd < Len(text) THEN strEllipsis ELSE <<>>),
         sourceName |-> chunk.sourceName,
         chunkId |-> chunk.id]

\* the record pushed for a match at startIndex
kwicRecord(chunk, keyword, windowChars, startIndex) ==
    LET text == chunk.text
        leftStart == IF startIndex - windowChars > 0 THEN startIndex - windowChars ELSE 0
        ending == startIndex + Len(keyword) + windowChars
        rightEnd == IF ending < Len(text) THEN ending ELSE Len(text)
    IN  [left |-> (IF leftStart > 0 THEN strEllipsis ELSE <<>>)
                      \o substring(text, leftStart, startIndex),
         keyword |-> substring(text, startIndex, startIndex + Len(keyword)),
         right |-> substring(text, startIndex + Len(keyword), rightEnd)
                      \o (IF rightEnd < Len(text) THEN strEllipsis ELSE <<>>),
         sourceName |-> chunk.sourceName,
         chunkId |-> chunk.id]

\* the result list is followed up to this many records; the loop goes on
\* beyond it, and what it pushes then is not recorded
MaxKwicResults == 8

KwicTexts == Strings({"a", "A", "b"}, 3)
KwicShortTexts == Strings({"a", "b"}, 2)
ExampleKwic == <<"a", " ", "c", "a", "t", " ", "s", "a", "t", " ", "n", "e", "a", "r", " ", "a", " ", "c", "a", "t">>
strCat == <<"c", "a", "t">>
KwicChunkLists ==
    {<<>>, <<TextChunk(ExampleKwic, 1)>>}
        \cup {<<TextChunk(t, 1)>> : t \in KwicTexts}
        \cup {<<TextChunk(t, 1), TextChunk(u, 2)>> : t, u \in KwicShortTexts}
Keywords == Strings({"a", "B"}, 2) \cup {strCat}
WindowSizes == {0, 1, 5}

InitKwic ==
    /\ files = <<>>
    /\ documents = <<>>
    /\ chunks \in KwicChunkLists
    /\ segmentationStrategy = "PARAGRAPH"
    /\ isHierarchical = FALSE
    /\ markdownSplitLevel = 1
    /\ csvConfig = initialCsvConfig
    /\ manualInput = <<>>
    /\ structure = emptyStructure
    /\ guess = None
    /\ random = <<>>
    /\ local = None
    /\ pc = "ready"

KwicUnchanged ==
    UNCHANGED <<random, files, documents, chunks, segmentationStrategy, isHierarchical,
                markdownSplitLevel, csvConfig, manualInput, structure, guess>>

\* generateKWIC(chunks, keyword, windowChars) is called: results = [], and
\* forEach is at the first chunk with startIndex = 0
GenerateKWIC(keyword, windowChars) ==
    /\ pc = "ready"
    /\ local' = Some([keyword |-> keyword, windowChars |-> windowChars, chunk |-> 1,
                      startIndex |-> 0, results |-> <<>>])
    /\ pc' = "while"
    /\ KwicUnchanged

\* while ((startIndex = normalizedText.indexOf(normalizedKeyword, startIndex)) > -1):
\* on -1 the callback returns and forEach goes to the next chunk
KwicTest ==
    /\ pc = "while"
    /\ local[1].chunk <= Len(chunks)
    /\ LET found == stringIndexOf(toLowerCase(chunks[local[1].chunk].text),
                                  toLowerCase(local[1].keyword), local[1].startIndex)
       IN  \/ /\ found > -1
              /\ local' = Some([local[1] EXCEPT !.startIndex = found])
              /\ pc' = "body"
           \/ /\ found = -1
              /\ local' = Some([local[1] EXCEPT !.startIndex = 0, !.chunk = @ + 1])
              /\ pc' = "while"
    /\ KwicUnchanged

\* the loop body: results.push({...}); startIndex = startIndex + 1
KwicBody ==
    /\ pc = "body"
    /\ local' = Some([local[1] EXCEPT
                        !.results = IF Len(@) < MaxKwicResults
                                    THEN Append(@, kwicRecord(chunks[local[1].chunk],
                                                              local[1].keyword,
                                                              local[1].windowChars,
                                                              local[1].startIndex))
                                    ELSE @,
                        !.startIndex = @ + 1])
    /\ pc' = "while"
    /\ KwicUnchanged

\* return results, after the last chunk
KwicReturn ==
    /\ pc = "while"
    /\ local[1].chunk > Len(chunks)
    /\ pc' = "done"
    /\ UNCHANGED local
    /\ KwicUnchanged

NextKwic ==
    \/ \E keyword \in Keywords, windowChars \in WindowSizes : GenerateKWIC(keyword, windowChars)
    \/ KwicTest
    \/ KwicBody
    \/ KwicReturn

SpecKwic == InitKwic /\ [][NextKwic]_vars

\* a call that is under way always takes its next step
SpecKwicFair == SpecKwic /\ WF_vars(NextKwic)

\* the keyword occurs in text at (0-based) position q, whatever the case of
\* the letters
OccursAt(text, keyword, q) ==
    /\ q + Len(keyword) <= Len(text)
    /\ \A j \in 1..Len(keyword) : toLowerCase(<<text[q + j]>>) = toLowerCase(<<keyword[j]>>)
\* the record of the occurrence at q: the matched characters of the text, the
\* window characters (or fewer) on either side, and the ellipses
Concordance(chunk, keyword, window, q) ==
    LET text == chunk.text
        from == IF q > window THEN q - window ELSE 0
        after == q + Len(keyword)
        to == IF after + window < Len(text) THEN after + window ELSE Len(text)
    IN  [left |-> (IF from = 0 THEN <<>> ELSE strEllipsis) \o SubSeq(text, from + 1, q),
         keyword |-> SubSeq(text, q + 1, after),
         right |-> SubSeq(text, after + 1, to) \o (IF to = Len(text) THEN <<>> ELSE strEllipsis),
         sourceName |-> chunk.sourceName,
         chunkId |-> chunk.id]
ConcordanceOfChunk(chunk, keyword, window) ==
    LET at == SelectSeq(upTo(Len(chunk.text) + 1),
                        LAMBDA k : OccursAt(chunk.text, keyword, k - 1))
    IN  [k \in 1..Len(at) |-> Concordance(chunk, keyword, window, at[k] - 1)]
KwicReturned == pc = "done" /\ local # None /\ "results" \in DOMAIN local[1]

\* C18: generateKWIC returns one record for every position at which the
\* keyword occurs in a chunk's text whatever the case, overlapping occurrences
\* included, chunk after chunk and by position; a record holds the matched
\* characters as the text has them, the window characters before them after
\* '...' exactly when they do not start the text, and the window characters
\* after them before '...' exactly when they do not end the text.
C18_Kwic ==
    KwicReturned =>
        local[1].results =
            Flatten([c \in 1..Len(chunks) |->
                        ConcordanceOfChunk(chunks[c], local[1].keyword, local[1].windowChars)])

\* two overlapping occurrences in another case than the keyword's, the second
\* with an ellipsis on its left
C18_Witness ==
    /\ KwicReturned
    /\ Len(chunks) = 1
    /\ chunks[1].text = <<"A", "a", "A">>
    /\ local[1].keyword = <<"a", "a">>
    /\ local[1].windowChars = 0
    /\ Len(local[1].results) = 2
    /\ local[1].results[1].keyword = <<"A", "a">>
    /\ local[1].results[2].keyword = <<"a", "A">>
    /\ local[1].results[2].left = strEllipsis
    /\ local[1].results[1].right = strEllipsis

\* C19: every call of generateKWIC returns, whatever the chunks, the keyword
\* (the empty one included) and the window.
C19_KwicTerminates == <>(pc = "done")

-----------------------------------------------------------------------------
(* splitCSVLine on every line of at most MaxFieldLineLen characters         *)

MaxFieldLineLen == 5
FieldLineAlphabet == {"a", ",", "\"", "\\", " "}
FieldLines == Strings(FieldLineAlphabet, MaxFieldLineLen)

\* const matches = splitCSVLine(line)
SplitCSVLine(line) ==
    /\ pc = "ready"
    /\ local' = Some([line |-> line, matches |-> splitCSVLine(line)])
    /\ pc' = "done"
    /\ UNCHANGED <<random, files, documents, chunks, segmentationStrategy, isHierarchical,
                   markdownSplitLevel, csvConfig, manualInput, structure, guess>>

NextSplit == \E line \in FieldLines : SplitCSVLine(line)

SpecSplit == InitApp /\ [][NextSplit]_vars

\* a double quote that flips the flag: not just after a backslash
FlipsAt(line, i) == line[i] = "\"" /\ (i = 1 \/ line[i - 1] # "\\")
\* the flag is on after the first i characters
FlagOnAfter(line, i) == Cardinality({j \in 1..i : FlipsAt(line, j)}) % 2 = 1
\* the commas seen with the flag off, in order
Separators(line) ==
    SelectSeq(upTo(Len(line)), LAMBDA i : line[i] = "," /\ ~FlagOnAfter(line, i))
\* the characters between the (k-1)-th and the k-th separator
RawField(line, k) ==
    LET seps == Separators(line)
        from == IF k = 1 THEN 1 ELSE seps[k - 1] + 1
        to == IF k > Len(seps) THEN Len(line) ELSE seps[k] - 1
    IN  SubSeq(line, from, to)
\* a run of n double quotes keeps those at an odd place in the run: each
\* doubled quote becomes one, a last odd one stays
Halved(t) ==
    LET runStart(i) == CHOOSE a \in 1..i :
                           /\ \A j \in a..i : t[j] = "\""
                           /\ (a = 1 \/ t[a - 1] # "\"")
        kept == SelectSeq(upTo(Len(t)),
                          LAMBDA i : t[i] # "\"" \/ (i - runStart(i)) % 2 = 0)
    IN  [k \in 1..Len(kept) |-> t[kept[k]]]
\* trimmed, one leading and one trailing double quote off, doubled quotes halved
Cleaned(field) ==
    LET t == Trimmed(field)
        u == IF t # <<>> /\ t[1] = "\"" THEN Tail(t) ELSE t
        v == IF u # <<>> /\ u[Len(u)] = "\"" THEN SubSeq(u, 1, Len(u) - 1) ELSE u
    IN  Halved(v)
SplitDone == pc = "done" /\ local # None /\ "matches" \in DOMAIN local[1]

\* C21: splitCSVLine ends a field at exactly the commas seen while the
\* in-quote flag (flipped by every double quote not just after a backslash) is
\* off, so it returns 1 + that many fields and a comma of a quoted region
\* stays in its field; each field is trimmed, loses one leading and one
\* trailing double quote and has every doubled quote collapsed to one.
C21_SplitCSVLine ==
    SplitDone =>
        LET line == local[1].line
            matches == local[1].matches
        IN  /\ Len(matches) = 1 + Len(Separators(line))
            /\ \A k \in 1..Len(matches) : matches[k] = Cleaned(RawField(line, k)) \o <<>>

\* the line ",", : its first comma is quoted and stays in the first field
C21_Witness ==
    /\ SplitDone
    /\ local[1].line = <<"\"", ",", "\"", ",">>
    /\ local[1].matches = <<<<",">>, <<>>>>


-----------------------------------------------------------------------------
(* Hierarchical splitting: where sections start                             *)

\* the line is a heading of level L: trimmed, it is L '#', whitespace and text
HeadingOfLevel(l, L) ==
    LET t == Trimmed(l)
    IN  /\ Len(t) >= L + 2
        /\ \A i \in 1..L : t[i] = "#"
        /\ t[L + 1] \in WhiteSpace
\* the label of the section line k lies in: that of the last heading of level
\* L at or before it, or the introduction's
SectionLabel(doc, lines, k, L) ==
    LET heads == {h \in 1..k : HeadingOfLevel(lines[h], L)}
    IN  doc.name \o strArrow \o
            (IF heads = {} THEN strIntro
             ELSE headerTitle(lines[CHOOSE h \in heads : \A g \in heads : g <= h]))
\* every line of the document that is neither blank nor a heading of level L,
\* with the label of its section
BodyLines(doc, L) ==
    LET lines == LinesOf(doc.content)
        body == SelectSeq(upTo(Len(lines)),
                          LAMBDA k : ~IsBlank(lines[k]) /\ ~HeadingOfLevel(lines[k], L))
    IN  [k \in 1..Len(body) |-> <<SectionLabel(doc, lines, body[k], L), Trimmed(lines[body[k]])>>]
\* every non-blank line of the chunk texts, with the label of its chunk
ChunkLines(cs) ==
    Flatten([i \in 1..Len(cs) |->
                LET lines == SelectSeq(LinesOf(cs[i].text), LAMBDA l : ~IsBlank(l))
                IN  [k \in 1..Len(lines) |-> <<cs[i].sourceName, Trimmed(lines[k])>>]])
EffectiveLevel ==
    IF segmentationStrategy = "SUBSECTION"
    THEN (IF markdownSplitLevel + 1 < 6 THEN markdownSplitLevel + 1 ELSE 6)
    ELSE markdownSplitLevel

\* C22: in hierarchical splitting the effective level is the split level, or
\* min(6, split level + 1) for SUBSECTION; sections start at exactly the
\* heading lines of the effective level, so every other non-blank line (a
\* heading of another level included) is in the body of the section of the
\* last such heading before it. Observed through LINE and SUBSECTION, whose
\* chunks keep whole lines.
C22_SectionsAtHeadings ==
    (/\ pc = "done"
     /\ isHierarchical
     /\ Len(documents) = 1
     /\ segmentationStrategy \in {"LINE", "SUBSECTION"})
        => ChunkLines(chunks) = BodyLines(documents[1], EffectiveLevel) \o <<>>


-----------------------------------------------------------------------------
(* analyzeMarkdownLevels, suggestSegmentation (services/step2_segment.ts)   *)
(* and initStep2 (App.tsx)                                                  *)

\* line.trim().match(/^(#{1,6})\s+(.+)$/): None, or the level and the title.
\* The trimmed line ends with a character that is no whitespace, so \s+ stops
\* before the title and .+ has to reach the end without a line terminator.
matchHeading(line) ==
    LET t == trim(line)
        h == SkipWhile(t, 1, {"#"})
        w == SkipWhile(t, h, WhiteSpace)
    IN  IF h - 1 \in 1..6 /\ h <= Len(t) /\ t[h] \in WhiteSpace
           /\ \A i \in w..Len(t) : t[i] \notin LineTerminator
        THEN Some([level |-> h - 1, text |-> trim(SubSeq(t, w, Len(t)))])
        ELSE None

\* the titles one document pushes to levels[L], in line order
titlesOfDoc(doc, L) ==
    IF doc.type \in {"markdown", "text"}
    THEN LET lines == split(doc.content, "newline")
             hits == SelectSeq(upTo(Len(lines)),
                               LAMBDA k : matchHeading(lines[k]) # None
                                          /\ matchHeading(lines[k])[1].level = L)
         IN  [k \in 1..Len(hits) |-> matchHeading(lines[hits[k]])[1].text]
    ELSE <<>>

\* analyzeMarkdownLevels that reads every document, tables included (a mutant)
analyzeMarkdownLevels_anyType(docs) ==
    [L \in 1..6 |->
        Flatten([d \in 1..Len(docs) |->
                    titlesOfDoc([docs[d] EXCEPT !.type = "text"], L)])]

analyzeMarkdownLevels(docs) ==
    [L \in 1..6 |-> Flatten([d \in 1..Len(docs) |-> titlesOfDoc(docs[d], L)])]

\* the first i in 1..6 with more than n titles, or otherwise
firstLevelAbove(levels, n, otherwise) ==
    LET over == {i \in 1..6 : Len(levels[i]) > n}
    IN  IF over = {} THEN otherwise ELSE CHOOSE i \in over : \A j \in over : i <= j

\* suggestSegmentation: what it recommends, and the level its reasoning names
\* (0 when it names none); llm is what the language model answers for plain text
suggestSegmentation(docs, llm) ==
    LET levels == analyzeMarkdownLevels(docs)
        totalHeaders == Len(Flatten(levels))
        first == firstLevelAbove(levels, 1, 1)
        bestLevel == IF Len(levels[1]) = 1 /\ Len(levels[2]) > 1 THEN 2 ELSE first
    IN  IF \E d \in 1..Len(docs) : docs[d].type = "csv"
            THEN [recommended |-> "ROW_COMBINED", isHierarchical |-> TRUE, bestLevel |-> 0]
        ELSE IF Len(docs) > 1 /\ totalHeaders = 0
            THEN [recommended |-> "FILE", isHierarchical |-> FALSE, bestLevel |-> 0]
        ELSE IF totalHeaders > 0
            THEN [recommended |-> "PARAGRAPH", isHierarchical |-> TRUE, bestLevel |-> bestLevel]
        ELSE [recommended |-> llm, isHierarchical |-> FALSE, bestLevel |-> 0]

\* the default split level of initStep2
defaultLevel(docs) ==
    LET levels == analyzeMarkdownLevels(docs)
    IN  IF Len(levels[1]) <= 1 /\ Len(levels[2]) > 1 THEN 2
        ELSE firstLevelAbove(levels, 0, 1)

\* the csvConfig initStep2 applies: the first header of the first CSV document
\* that has headers as only target
initialCsvConfigOf(docs, config) ==
    LET csvDocs == {d \in 1..Len(docs) : docs[d].type = "csv"}
        csvDoc == docs[CHOOSE d \in csvDocs : \A e \in csvDocs : d <= e]
    IN  IF csvDocs # {} /\ csvDoc.csvHeaders # None
        THEN [targetColumns |-> <<csvDoc.csvHeaders[1][1]>>, contextColumns |-> <<>>,
              sentimentContextColumns |-> <<>>, strategy |-> "DISTINCT"]
        ELSE config

\* the state initStep2 sets and the chunks it generates from the suggestion
applySuggestion(suggestion, level, config) ==
    /\ local' = Some(suggestion)
    /\ segmentationStrategy' = suggestion.recommended
    /\ isHierarchical' = suggestion.isHierarchical
    /\ markdownSplitLevel' = level
    /\ csvConfig' = config
    /\ chunks' = performSegmentation(documents, suggestion.recommended, config,
                                     suggestion.isHierarchical, level)

\* initStep2, with the answer of the language model; local keeps the suggestion
InitStep2(llm) ==
    /\ pc = "ready"
    /\ documents # <<>>
    /\ applySuggestion(suggestSegmentation(documents, llm), defaultLevel(documents),
                       initialCsvConfigOf(documents, csvConfig))
    /\ pc' = "done"
    /\ UNCHANGED <<random, files, documents, manualInput, structure, guess>>

\* documents of one to three lines: headings of the levels 1 to 3 and text;
\* two documents without headings; a table
HeadingForms == {<<"#", " ", "a">>, <<"#", "#", " ", "b">>, <<"#", "#", "#", " ", "c">>,
                 <<"x">>}
strDocMd == <<"d", ".", "m", "d">>
Step2FileLists ==
    {<<File(strDocMd, <<>>, t)>> : t \in LineTexts(HeadingForms, 3)}
        \cup {<<File(strDocTxt, <<>>, <<"x">>), File(strDocTxt, <<>>, <<"y">>)>>,
              <<File(strDocCsv, strTextCsv, OrderTable)>>}

NextStep2 ==
    \/ documents = <<>> /\ \E fl \in Step2FileLists : HandleFileUpload(fl)
    \/ \E llm \in Granularity : InitStep2(llm)

SpecStep2 == InitApp /\ [][NextStep2]_vars

\* the number of heading lines of level L in the documents
HeadingCount(L) ==
    LET docLines(d) == LinesOf(documents[d].content)
    IN  Cardinality({dk \in UNION {{<<d, k>> : k \in 1..Len(docLines(d))} :
                                       d \in 1..Len(documents)} :
                        HeadingOfLevel(docLines(dk[1])[dk[2]], L)})
\* the shallowest level with more than one heading, level 2 going before a
\* level 1 that has exactly one heading
PreferredLevel ==
    IF HeadingCount(1) = 1 /\ HeadingCount(2) > 1 THEN 2
    ELSE CHOOSE L \in 1..6 : HeadingCount(L) > 1 /\ \A M \in 1..(L - 1) : HeadingCount(M) <= 1

\* C23: entering the segmentation step, the split level applied is the
\* shallowest heading level with more than one heading (level 2 rather than a
\* level 1 with exactly one heading when level 2 has more than one), and it
\* is the level suggestSegmentation names for the same documents.
C23_DefaultLevel ==
    (/\ pc = "done"
     /\ local # None
     /\ \A d \in 1..Len(documents) : documents[d].type # "csv"
     /\ \E L \in 1..6 : HeadingCount(L) > 1)
        => /\ markdownSplitLevel = PreferredLevel
           /\ markdownSplitLevel = local[1].bestLevel


-----------------------------------------------------------------------------
(* The CSV configuration dialog (components/CsvConfigModal.tsx): local      *)
(* holds its three column lists and its combine mode                        *)

\* list.filter(c => c !== col)
without(list, col) == SelectSeq(list, LAMBDA c : c # col)

\* handleToggle(col, 'target') that leaves the context list alone (a mutant)
toggleTarget_keepsContext(m, col) ==
    IF InSeq(col, m.targetColumns)
    THEN [m EXCEPT !.targetColumns = without(@, col)]
    ELSE [m EXCEPT !.targetColumns = Append(@, col),
                   !.sentimentContextColumns = without(@, col)]

\* handleToggle(col, 'target')
toggleTarget(m, col) ==
    IF InSeq(col, m.targetColumns)
    THEN [m EXCEPT !.targetColumns = without(@, col)]
    ELSE [m EXCEPT !.targetColumns = Append(@, col),
                   !.contextColumns = without(@, col),
                   !.sentimentContextColumns = without(@, col)]

\* handleToggle(col, 'context')
toggleContext(m, col) ==
    IF InSeq(col, m.contextColumns)
    THEN [m EXCEPT !.contextColumns = without(@, col),
                   !.sentimentContextColumns = without(@, col)]
    ELSE [m EXCEPT !.contextColumns = Append(@, col),
                   !.targetColumns = without(@, col)]

\* handleToggle(col, 'sentiment')
toggleSentiment(m, col) ==
    IF InSeq(col, m.sentimentContextColumns)
    THEN [m EXCEPT !.sentimentContextColumns = without(@, col)]
    ELSE [m EXCEPT !.sentimentContextColumns = Append(@, col)]

ModalHeaders == {<<"h">>, <<"k">>, <<"z">>}

\* the dialog opens: useState(initialConfig.targetColumns) and so on
InitModal ==
    /\ files = <<>>
    /\ documents = <<>>
    /\ chunks = <<>>
    /\ segmentationStrategy = "ROW_COMBINED"
    /\ isHierarchical = TRUE
    /\ markdownSplitLevel = 1
    /\ csvConfig \in CsvConfigs
    /\ manualInput = <<>>
    /\ structure = emptyStructure
    /\ guess = None
    /\ random = <<>>
    /\ local = Some([targetColumns |-> csvConfig.targetColumns,
                     contextColumns |-> csvConfig.contextColumns,
                     sentimentContextColumns |-> csvConfig.sentimentContextColumns,
                     combineMode |-> csvConfig.strategy = "COMBINE"])
    /\ pc = "modal"

ModalUnchanged ==
    UNCHANGED <<random, files, documents, chunks, segmentationStrategy, isHierarchical,
                markdownSplitLevel, csvConfig, manualInput, structure, guess>>

\* the target checkbox of a column
ToggleTarget(col) ==
    /\ pc \in {"modal", "toggled"}
    /\ local' = Some(toggleTarget(local[1], col))
    /\ pc' = "toggled"
    /\ ModalUnchanged

\* the context checkbox of a column
ToggleContext(col) ==
    /\ pc \in {"modal", "toggled"}
    /\ local' = Some(toggleContext(local[1], col))
    /\ pc' = "toggled"
    /\ ModalUnchanged

\* the sentiment checkbox of a column: disabled={!isContext}
ToggleSentiment(col) ==
    /\ pc \in {"modal", "toggled"}
    /\ InSeq(col, local[1].contextColumns)
    /\ local' = Some(toggleSentiment(local[1], col))
    /\ pc' = "toggled"
    /\ ModalUnchanged

NextModal ==
    \/ \E col \in ModalHeaders : ToggleTarget(col)
    \/ \E col \in ModalHeaders : ToggleContext(col)
    \/ \E col \in ModalHeaders : ToggleSentiment(col)

SpecModal == InitModal /\ [][NextModal]_vars

\* C24: from a config with disjoint target and context sets and the sentiment
\* set inside the context set, every sequence of toggles the dialog allows
\* keeps targetColumns and contextColumns disjoint and
\* sentimentContextColumns inside contextColumns.
C24_TogglesKeepSets ==
    pc \in {"modal", "toggled"} /\ local # None =>
        /\ \A col \in ModalHeaders :
               ~(InSeq(col, local[1].targetColumns) /\ InSeq(col, local[1].contextColumns))
        /\ \A col \in ModalHeaders :
               InSeq(col, local[1].sentimentContextColumns)
                   => InSeq(col, local[1].contextColumns)

\* a column that was a sentiment context column when the dialog opened is
\* now a target, next to another sentiment context column
C24_Witness ==
    /\ pc = "toggled"
    /\ InSeq(<<"k">>, csvConfig.sentimentContextColumns)
    /\ InSeq(<<"k">>, local[1].targetColumns)
    /\ InSeq(<<"h">>, local[1].sentimentContextColumns)


-----------------------------------------------------------------------------
(* analyzeMarkdownLevels on documents of at most MaxLevelLen characters, on *)
(* documents of heading-like lines, and on pairs of documents               *)

MaxLevelLen == 5
LevelAlphabet == {"#", " ", "a", "\n", "\r"}
LevelForms == {<<"#", " ", "a">>, <<"#", "#", " ", "b">>, <<" ", "#", " ", "e", " ">>,
               <<"#", "#", "#", "#", "#", "#", " ", "c">>,
               <<"#", "#", "#", "#", "#", "#", "#", " ", "d">>,
               <<"#", "a">>, <<"#">>, <<"x">>}
Doc(id, type, content) ==
    [id |-> id, name |-> strDocTxt, content |-> content, type |-> type, csvHeaders |-> None]
LevelDocLists ==
    {<<Doc("d1", "text", t)>> : t \in Strings(LevelAlphabet, MaxLevelLen)}
        \cup {<<Doc("d1", ty, t)>> : ty \in {"text", "markdown", "csv"},
                                      t \in LineTexts(LevelForms, 2)}
        \cup {<<Doc("d1", ty, t), Doc("d2", uy, u)>> :
                  ty \in {"markdown", "csv"}, uy \in {"text", "csv"}, t \in LevelForms,
                  u \in LevelForms}

InitLevels ==
    /\ files = <<>>
    /\ documents \in LevelDocLists
    /\ chunks = <<>>
    /\ segmentationStrategy = "PARAGRAPH"
    /\ isHierarchical = FALSE
    /\ markdownSplitLevel = 1
    /\ csvConfig = initialCsvConfig
    /\ manualInput = <<>>
    /\ structure = emptyStructure
    /\ guess = None
    /\ random = <<>>
    /\ local = None
    /\ pc = "ready"

\* const levels = analyzeMarkdownLevels(state.documents)
AnalyzeMarkdownLevels ==
    /\ pc = "ready"
    /\ local' = Some(analyzeMarkdownLevels(documents))
    /\ pc' = "done"
    /\ UNCHANGED <<random, files, documents, chunks, segmentationStrategy, isHierarchical,
                   markdownSplitLevel, csvConfig, manualInput, structure, guess>>

NextLevels == AnalyzeMarkdownLevels

SpecLevels == InitLevels /\ [][NextLevels]_vars

\* the title of a line that, trimmed, is L '#', whitespace and text: the text
TitleOf(l, L) == Trimmed(SubSeq(Trimmed(l), L + 1, Len(Trimmed(l))))
\* the titles of the lines of doc that are headings of level L by the test
\* IsHeading, in line order; nothing for a table
TitlesBy(doc, L, IsHeading(_, _)) ==
    IF doc.type = "csv" THEN <<>>
    ELSE LET lines == CsvLinesOf(doc.content)
             heads == SelectSeq(upTo(Len(lines)), LAMBDA k : IsHeading(lines[k], L))
         IN  [k \in 1..Len(heads) |-> TitleOf(lines[heads[k]], L)]
BucketsBy(IsHeading(_, _)) ==
    /\ DOMAIN local[1] = 1..6
    /\ \A L \in 1..6 :
           local[1][L] = Flatten([d \in 1..Len(documents) |->
                                     TitlesBy(documents[d], L, IsHeading)])
\* a heading of level L whose text holds no carriage return
HeadingWithoutReturn(l, L) ==
    /\ HeadingOfLevel(l, L)
    /\ \A i \in 1..Len(TitleOf(l, L)) : TitleOf(l, L)[i] # "\r"
LevelsAnalyzed == pc = "done" /\ local # None /\ DOMAIN local[1] = 1..6

\* C25 as stated: analyzeMarkdownLevels returns the six buckets 1..6; bucket
\* L holds, in document order then line order, the title of every line of a
\* 'markdown' or 'text' document that, trimmed, is L '#' (1 <= L <= 6),
\* whitespace and non-empty text; tables and lines with 7 or more '#' give
\* nothing.
C25_LevelBuckets == LevelsAnalyzed => BucketsBy(HeadingOfLevel)

\* C25 amended: the same, for the lines whose text after the '#' and the
\* whitespace holds no carriage return; a line with a carriage return in its
\* text gives nothing.
C25_LevelBucketsAmended == LevelsAnalyzed => BucketsBy(HeadingWithoutReturn)

\* two documents, a table between them in neither bucket: the heading of the
\* first document is reported before that of the second
C25_Witness ==
    /\ LevelsAnalyzed
    /\ Len(documents) = 2
    /\ documents[1].type = "markdown"
    /\ documents[2].type = "text"
    /\ local[1][1] = <<<<"a">>, <<"e">>>>
    /\ \A L \in 2..6 : local[1][L] = <<>>


\* C26: the config guessCSVConfig returns never has a column index both in
\* analyzeCols and in contextCols, the last-column fallback included.
C26_GuessDisjoint ==
    Guessed => \A i \in 1..Len(guess[1].analyzeCols) :
                   ~InSeq(guess[1].analyzeCols[i], guess[1].contextCols)


-----------------------------------------------------------------------------
(* performLocalAnalysis (services/step4_local.ts): one runPrompt call per   *)
(* chunk, in flight together; local holds what each call has settled to     *)

\* chunks.slice(0, 15)
AnalysisLimit == 15

\* the value the callback of chunk returns once its call has settled: the
\* chunk itself after a failure, else the chunk with the result's fields
analyzedChunk(chunk, outcome) ==
    IF outcome.state = "failed" THEN chunk
    ELSE [id |-> chunk.id, text |-> chunk.text, type |-> chunk.type,
          sourceId |-> chunk.sourceId, sourceName |-> chunk.sourceName,
          analysis |-> outcome.result.analysis, sentiment |-> outcome.result.sentiment,
          tags |-> outcome.result.tags, isAnalyzed |-> TRUE]

\* the merge that forgets the chunks past the limit (a mutant)
mergeBack_dropsRest(analyzedChunks, cs) == analyzedChunks

\* [...analyzedChunks, ...chunks.slice(15)]
mergeBack(analyzedChunks, cs) == analyzedChunks \o SubSeq(cs, AnalysisLimit + 1, Len(cs))

\* what the language model may answer for a chunk
PromptResults ==
    {[analysis |-> <<"A">>, sentiment |-> 1, tags |-> <<<<"t">>>>],
     [analysis |-> <<"B">>, sentiment |-> 0, tags |-> <<>>]}
\* one to three chunks, and sixteen
AnalysisChunkLists ==
    {[i \in 1..n |-> TextChunk(<<"a">>, i)] : n \in {0, 1, 2, 3, AnalysisLimit + 1}}
\* in the list of sixteen only the first and the fifteenth call may fail, and
\* every call that answers gives the same answer
MayFail(i) == Len(chunks) <= 3 \/ i \in {1, AnalysisLimit}
MayAnswer(i, r) == Len(chunks) <= 3 \/ r.sentiment = 1

InitAnalysis ==
    /\ files = <<>>
    /\ documents = <<>>
    /\ chunks \in AnalysisChunkLists
    /\ segmentationStrategy = "PARAGRAPH"
    /\ isHierarchical = FALSE
    /\ markdownSplitLevel = 1
    /\ csvConfig = initialCsvConfig
    /\ manualInput = <<>>
    /\ structure = emptyStructure
    /\ guess = None
    /\ random = <<>>
    /\ local = None
    /\ pc = "ready"

AnalysisUnchanged ==
    UNCHANGED <<random, files, documents, chunks, segmentationStrategy, isHierarchical,
                markdownSplitLevel, csvConfig, manualInput, structure, guess>>

\* performLocalAnalysis(chunks, globalThemes) starts a call for each of the
\* first 15 chunks and awaits Promise.all
PerformLocalAnalysis ==
    /\ pc = "ready"
    /\ local' = Some([calls |-> [i \in 1..(IF Len(chunks) < AnalysisLimit THEN Len(chunks)
                                           ELSE AnalysisLimit) |-> [state |-> "pending"]],
                      returned |-> <<>>])
    /\ pc' = "awaiting"
    /\ AnalysisUnchanged

\* the call of chunk i answers
CallAnswers(i, result) ==
    /\ pc = "awaiting"
    /\ i \in DOMAIN local[1].calls
    /\ local[1].calls[i].state = "pending"
    /\ MayAnswer(i, result)
    /\ local' = Some([local[1] EXCEPT !.calls[i] = [state |-> "answered", result |-> result]])
    /\ AnalysisUnchanged /\ UNCHANGED pc

\* the call of chunk i throws: catch (e) { return chunk }
CallFails(i) ==
    /\ pc = "awaiting"
    /\ i \in DOMAIN local[1].calls
    /\ local[1].calls[i].state = "pending"
    /\ MayFail(i)
    /\ local' = Some([local[1] EXCEPT !.calls[i] = [state |-> "failed"]])
    /\ AnalysisUnchanged /\ UNCHANGED pc

\* every call has settled: Promise.all gives the callbacks' values in the
\* order of the chunks, and the function returns
AnalysisReturns ==
    /\ pc = "awaiting"
    /\ \A i \in DOMAIN local[1].calls : local[1].calls[i].state # "pending"
    /\ local' = Some([local[1] EXCEPT !.returned =
                         mergeBack([i \in DOMAIN local[1].calls |->
                                       analyzedChunk(chunks[i], local[1].calls[i])],
                                   chunks)])
    /\ pc' = "done"
    /\ AnalysisUnchanged

NextAnalysis ==
    \/ PerformLocalAnalysis
    \/ \E i \in 1..AnalysisLimit, result \in PromptResults : CallAnswers(i, result)
    \/ \E i \in 1..AnalysisLimit : CallFails(i)
    \/ AnalysisReturns

SpecAnalysis == InitAnalysis /\ [][NextAnalysis]_vars

AnalysisDone == pc = "done" /\ local # None /\ "returned" \in DOMAIN local[1]

\* C27: performLocalAnalysis returns as many chunks as it got, with the same
\* ids in the same order, in whatever order the calls settle; a chunk from
\* index 15 on and a chunk whose call failed is returned unchanged; any other
\* chunk differs from its original only by the analysis, sentiment and tags
\* of its own call (and the isAnalyzed mark).
C27_LocalAnalysis ==
    AnalysisDone =>
        LET returned == local[1].returned
            calls == local[1].calls
        IN  /\ Len(returned) = Len(chunks)
            /\ \A i \in 1..Len(chunks) :
                   /\ returned[i].id = chunks[i].id
                   /\ returned[i].text = chunks[i].text
                   /\ i > 15 => returned[i] = chunks[i]
                   /\ i <= 15 /\ calls[i].state = "failed" => returned[i] = chunks[i]
                   /\ i <= 15 /\ calls[i].state = "answered" =>
                          /\ returned[i].analysis = calls[i].result.analysis
                          /\ returned[i].sentiment = calls[i].result.sentiment
                          /\ returned[i].tags = calls[i].result.tags

\* sixteen chunks, the first call failed, the fifteenth answered: the first
\* and the sixteenth chunk are unchanged, the fifteenth is analysed
C27_Witness ==
    /\ AnalysisDone
    /\ Len(chunks) = 16
    /\ local[1].calls[1].state = "failed"
    /\ local[1].calls[15].state = "answered"
    /\ local[1].returned[1] = chunks[1]
    /\ local[1].returned[15].analysis = <<"A">>
    /\ local[1].returned[16] = chunks[16]


\* C28: for a 'markdown' or 'text' document and every level L in 1..6, the
\* headings at which hierarchical splitting at effective level L starts a
\* section are the level-L headings analyzeMarkdownLevels reports: as many,
\* in the same order, each section label being the reported title.
C28_SectionsAreReportedHeadings ==
    LevelsAnalyzed /\ Len(documents) = 1 /\ documents[1].type # "csv" =>
        \A L \in 1..6 : sectionHeaders(documents[1], L) \o <<>> = local[1][L]


-----------------------------------------------------------------------------
(* SENTENCE splitting of flat text                                          *)

\* the characters of t that are no whitespace, in order
Solid(t) == SelectSeq(t, LAMBDA c : c \notin WhiteSpace)

\* C29: with granularity SENTENCE on a flat non-tabular document the chunk
\* texts are, in order, non-overlapping pieces of the content and hold
\* between them every character of the content that is no whitespace, once
\* and in the original order.
C29_SentencesKeepContent ==
    (/\ pc = "done"
     /\ segmentationStrategy = "SENTENCE"
     /\ ~isHierarchical
     /\ Len(documents) = 1
     /\ documents[1].type # "csv")
        => /\ OccurInOrder(TextsOf(chunks) \o <<>>, documents[1].content, 1)
           /\ Solid(Flatten(TextsOf(chunks))) = Solid(documents[1].content)


-----------------------------------------------------------------------------
(* The version store (storageService.ts)                                    *)

\* An object reference held in a version's state field: the application's
\* own state object, or an object of its own with the given content.
LiveState == [ref |-> "live"]
OwnState(content) == [ref |-> "own", value |-> content]

\* the content behind a reference while the application state is appState
deref(r, appState) == IF r.ref = "live" THEN appState ELSE r.value

\* JSON.stringify(versions): the text holds the content of every object
JSONstringify(versions, appState) ==
    [i \in 1..Len(versions) |->
        [versions[i] EXCEPT !.state = deref(@, appState)]] \o <<>>

\* JSON.parse(text): every object of the result is a new one
JSONparse(text) ==
    [i \in 1..Len(text) |-> [text[i] EXCEPT !.state = OwnState(@)]] \o <<>>

\* the number of versions the store keeps
KeepVersions == 20

\* getSavedVersions(): nothing stored yet reads as the empty list
getSavedVersions(localStorage) ==
    IF localStorage = None THEN <<>> ELSE JSONparse(localStorage[1])

\* `Step ${state.currentStep} - ${dateStr}`
defaultName(appState, timestamp) == <<"Step", appState.currentStep, timestamp>>

\* newVersion.state with the application's state object itself
snapshot_sameObject(appState) == LiveState

\* JSON.parse(JSON.stringify(state))
snapshot(appState) == OwnState(appState)

slice(list, n) == IF Len(list) <= n THEN list ELSE SubSeq(list, 1, n)

\* saveVersion(state, name), with the values uuidv4() and Date.now() gave
saveVersion(localStorage, appState, name, uuid, timestamp) ==
    LET versions == getSavedVersions(localStorage)
        newVersion == [id |-> uuid,
                       timestamp |-> timestamp,
                       name |-> IF name = <<>> THEN defaultName(appState, timestamp)
                                ELSE name,
                       step |-> appState.currentStep,
                       state |-> snapshot(appState)]
        updatedVersions == slice(<<newVersion>> \o versions, KeepVersions)
    IN  [localStorage |-> Some(JSONstringify(updatedVersions, appState)),
         returned |-> newVersion]

\* deleteVersion(id)
deleteVersion(localStorage, appState, id) ==
    LET versions == SelectSeq(getSavedVersions(localStorage), LAMBDA v : v.id # id)
    IN  [localStorage |-> Some(JSONstringify(versions, appState)),
         returned |-> versions]

\* the saves of a run
MaxSaves == 23
\* the saves for which a name is typed
MaxNamed == 1

\* What uuidv4() and Date.now() give for the saves of a run: distinct ids on
\* a clock that advances, or an id given twice on a clock that stands still
\* between two saves.
UuidStreams ==
    { [k \in 1..MaxSaves |-> k],
      [k \in 1..MaxSaves |-> IF k = 3 THEN 2 ELSE k] }
ClockStreams ==
    { [k \in 1..MaxSaves |-> 100 + k],
      [k \in 1..MaxSaves |-> IF k < 3 THEN 100 + k ELSE 99 + k] }
VersionNames == {<<>>, <<"v">>}
DeletedIds == {2, 21}
initialState == [currentStep |-> 1, selectedTerm |-> "null"]

InitStore ==
    /\ files = <<>>
    /\ documents = <<>>
    /\ chunks = <<>>
    /\ segmentationStrategy = "PARAGRAPH"
    /\ isHierarchical = FALSE
    /\ markdownSplitLevel = 1
    /\ csvConfig = initialCsvConfig
    /\ manualInput = <<>>
    /\ structure = emptyStructure
    /\ guess = None
    /\ random = <<>>
    /\ \E uuids \in UuidStreams, clock \in ClockStreams :
          local = Some([localStorage |-> None,
                        state |-> initialState,
                        uuids |-> uuids,
                        clock |-> clock,
                        saves |-> 0,
                        newVer |-> None,
                        call |-> [op |-> "none"]])
    /\ pc = "ready"

StoreUnchanged ==
    UNCHANGED <<random, files, documents, chunks, segmentationStrategy, isHierarchical,
                markdownSplitLevel, csvConfig, manualInput, structure, guess, pc>>

\* handleSave: saveVersion(currentState, saveName); the panel keeps newVer
SaveVersion(name) ==
    /\ local[1].saves < MaxSaves
    /\ name = <<>> \/ local[1].saves < MaxNamed
    /\ LET l == local[1]
           k == l.saves + 1
           r == saveVersion(l.localStorage, l.state, name, l.uuids[k], l.clock[k])
       IN  local' = Some([l EXCEPT !.localStorage = r.localStorage,
                                   !.saves = k,
                                   !.newVer = Some(r.returned),
                                   !.call = [op |-> "saveVersion",
                                             before |-> getSavedVersions(l.localStorage),
                                             state |-> l.state,
                                             returned |-> r.returned]])
    /\ StoreUnchanged

\* handleDelete(id): deleteVersion(id)
DeleteVersion(id) ==
    /\ LET l == local[1]
           r == deleteVersion(l.localStorage, l.state, id)
       IN  local' = Some([l EXCEPT !.localStorage = r.localStorage,
                                   !.call = [op |-> "deleteVersion",
                                             before |-> getSavedVersions(l.localStorage),
                                             id |-> id,
                                             returned |-> r.returned]])
    /\ StoreUnchanged

\* the application goes on to the next step: a change of its state object
ChangeState ==
    /\ local[1].state.currentStep = 1
    /\ LET l == local[1]
       IN  local' = Some([l EXCEPT !.state.currentStep = 2,
                                   !.call = [op |-> "changeState",
                                             before |-> getSavedVersions(l.localStorage),
                                             held |-> IF l.newVer = None THEN None
                                                      ELSE Some(deref(l.newVer[1].state, l.state))]])
    /\ StoreUnchanged

NextStore ==
    \/ \E name \in VersionNames : SaveVersion(name)
    \/ \E id \in DeletedIds : DeleteVersion(id)
    \/ ChangeState

SpecStore == InitStore /\ [][NextStore]_vars

\* the stored version list, with the content of every snapshot
Stored == IF local[1].localStorage = None THEN <<>> ELSE local[1].localStorage[1]
Contents(versions) == JSONstringify(versions, local[1].state)

NewestFirst(list) ==
    \A i, j \in 1..Len(list) : i < j => list[i].timestamp >= list[j].timestamp

\* list without the entries at the positions outside keep, in the same order
RECURSIVE KeptOf(_, _, _)
KeptOf(list, keep, i) ==
    IF i > Len(list) THEN <<>>
    ELSE (IF i \in keep THEN <<list[i]>> ELSE <<>>) \o KeptOf(list, keep, i + 1)

\* C30: the store holds at most 20 versions, newest first; saveVersion puts
\* the new version first and drops the oldest beyond 20; deleteVersion
\* removes exactly the versions with the given id and keeps the order of
\* the rest; a snapshot that was saved, stored or returned, is not altered
\* by a later change of the application state.
C30_VersionStore ==
    LET call == local[1].call
        before == Contents(call.before)
    IN  /\ Len(Stored) <= 20
        /\ NewestFirst(Stored)
        /\ call.op = "saveVersion" =>
              /\ Stored # <<>>
              /\ Stored[1].id = call.returned.id
              /\ Stored[1].timestamp = call.returned.timestamp
              /\ Stored[1].step = call.state.currentStep
              /\ Stored[1].state = call.state
              /\ Len(Stored) = (IF Len(before) < 20 THEN Len(before) + 1 ELSE 20)
              /\ \A i \in 2..Len(Stored) : Stored[i] = before[i - 1]
        /\ call.op = "deleteVersion" =>
              /\ Stored = KeptOf(before, {i \in 1..Len(before) : before[i].id # call.id}, 1)
              /\ Contents(call.returned) = Stored
        /\ call.op = "changeState" =>
              /\ Stored = before
              /\ call.held # None =>
                    deref(local[1].newVer[1].state, local[1].state) = call.held[1]

\* the 21st version was saved on a full store, a version was deleted and the
\* application state changed after a save
C30_Witness ==
    /\ local[1].call.op = "saveVersion"
    /\ Len(local[1].call.before) = 20
    /\ local[1].saves > 21
    /\ local[1].state.currentStep = 2
    /\ Stored[20].step = 1


====
